---- MODULE Spec2Model ----
(***************************************************************************)
(* Survey-Manager: the data-access facade (src/src/utils/database.ts), the *)
(* backend tables and row-level policies it talks to (supabase/migrations) *)
(* and the survey-taking forms that submit responses through it; the       *)
(* session component (src/src/contexts/AuthContext.tsx) and the components *)
(* that keep query results (App, AdminDashboard, ResponseCount).           *)
(*                                                                         *)
(* An absent user context or an anonymous session is the empty set, a      *)
(* present user u is {u}.  An optional survey field is Undefined, Null or  *)
(* Val(v): the application distinguishes undefined from null, the backend  *)
(* stores Null (SQL NULL) or Val(v).                                       *)
(* Timestamps of rows (created_at, updated_at, submitted_at) and the result *)
(* ordering they drive are not modelled: a remote query result is a set.   *)
(***************************************************************************)
EXTENDS Integers, FiniteSets, Sequences, TLC

\* ------------------------------------------------------------------ bounds
MaxTime == 2
MaxLimit == 1
MaxResponses == 2
MaxForms == 2
MaxQuestions == 1
MaxOptions == 3
MaxSurveys == 1
MaxEvents == 2
MaxMounts == 1
MaxPending == 2

Users == {"uA", "uB"}
MockUser == "dev-user-123"
SurveyIds == {"s1", "s2"}
PublicIds == {"p1", "p2"}
Titles == {"Feedback"}
AnswerValues == {"Yes", "No"}
ResponseIds == 1..MaxResponses
Times == 0..MaxTime
ExpiryTimes == 1..(MaxTime - 1)
Limits == 1..MaxLimit

NoUser == {}
Anon == {}
Undefined == [k |-> "undefined"]
Null == [k |-> "null"]
Val(v) == [k |-> "value", v |-> v]
\* JavaScript truthiness of an optional number or date string
Truthy(o) == o.k = "value"

VARIABLES
    isSupabaseConfigured,   \* the remote backend is configured (fixed at start)
    now,                    \* the clock shared by browser and backend
    surveys,                \* backend table surveys: a set of rows
    responses,              \* backend table responses: a set of rows
    localSurveys,           \* local store, survey collection: a list
    localResponses,         \* local store, response collection: a list
    result,                 \* what the last facade call returned or threw
    forms,                  \* per open application instance: the view and its state
    backendDown,            \* the backend cannot be reached: every request fails
    authState,              \* AuthProvider: the state it hands to its consumers
    supabaseAuth,           \* supabase.auth: the session, the calls in flight and the
                            \* callbacks that have not run yet
    consumers,              \* React state of the components that keep query results
    requests                \* facade calls of the components that have not returned yet

vars == <<isSupabaseConfigured, now, surveys, responses, localSurveys, localResponses, result,
          forms, backendDown, authState, supabaseAuth, consumers, requests>>

\* database.ts:16
useFallback == ~isSupabaseConfigured

\* ------------------------------------------------------------ record shapes
FormIds == 1..MaxForms

\* An application instance on the survey list (App.tsx:15, currentView 'list').
ListView == [view |-> "list"]

\* AuthContext.tsx:23-27: the state of AuthProvider before its effect has run. A
\* null error is the empty string.
InitialAuthState == [user |-> NoUser, loading |-> TRUE, error |-> ""]

\* No call of supabase.auth is in flight.
NoAuthCall == [op |-> "none"]

\* supabase.auth as AuthProvider finds it: the persisted session, no listener yet
\* (AuthContext.tsx:29, the effect has not run), no getSession in progress, no
\* notification waiting for the listener and no call in flight.
AuthClient(session) ==
    [session |-> session, mounted |-> FALSE, getSession |-> [status |-> "idle"],
     events |-> <<>>, call |-> NoAuthCall]

\* The components that keep query results, before any of them has mounted: the
\* survey list of App (App.tsx:16), AdminDashboard (AdminDashboard.tsx:18-20, its
\* responses effect last ran with deps) and the ResponseCount of a listed survey
\* (SurveyList.tsx:246-247, its effect last ran with deps).
NoConsumers ==
    [app |-> [mounted |-> FALSE, surveys |-> {}],
     dashboard |-> [instance |-> 0, open |-> FALSE, surveys |-> {}, selectedSurvey |-> Null,
                    deps |-> Null, responses |-> {}],
     count |-> [deps |-> Null, count |-> 0, loading |-> TRUE]]

\* A mounted form: PublicSurveyTaker.tsx:21-25 (view "public") or SurveyTaker.tsx:13-17
\* (view "take"), with the survey it was given and the session of its browser.
FormView(view, survey, auth) ==
    [view |-> view, survey |-> survey, auth |-> auth, responseCount |-> 0,
     countPending |-> (view = "public"), isSubmitted |-> FALSE, alert |-> ""]

\* The Survey of the application (types/survey.ts).
Survey(id, publicId, title, isActive, allowPublicAccess, responseLimit, expiresAt) ==
    [id |-> id, publicId |-> publicId, title |-> title, description |-> "",
     questions |-> <<"q1">>, isActive |-> isActive,
     allowPublicAccess |-> allowPublicAccess,
     responseLimit |-> responseLimit, expiresAt |-> expiresAt]

\* The Response of the application (types/survey.ts).
Response(id, surveyId, answers) ==
    [id |-> id, surveyId |-> surveyId, answers |-> answers]

\* database.ts:19-30
transformDatabaseSurvey(dbSurvey) ==
    [id |-> dbSurvey.id, publicId |-> dbSurvey.public_id, title |-> dbSurvey.title,
     description |-> dbSurvey.description, questions |-> dbSurvey.questions,
     isActive |-> dbSurvey.is_active,
     allowPublicAccess |-> dbSurvey.allow_public_access,
     responseLimit |-> dbSurvey.response_limit, expiresAt |-> dbSurvey.expires_at]

\* database.ts:33-43
transformAppSurvey(survey) ==
    [id |-> survey.id, public_id |-> survey.publicId, title |-> survey.title,
     description |-> survey.description, questions |-> survey.questions,
     is_active |-> survey.isActive,
     allow_public_access |-> survey.allowPublicAccess,
     response_limit |-> survey.responseLimit, expires_at |-> survey.expiresAt]

\* database.ts:46-51
transformDatabaseResponse(dbResponse) ==
    [id |-> dbResponse.id, surveyId |-> dbResponse.survey_id,
     answers |-> dbResponse.answers]

\* ------------------------------------------------- backend: row-level policies
\* policy authenticated_select_surveys and policy anon_select_public_surveys
SurveySelectPolicy(row, auth) ==
    IF auth # Anon
    THEN row.user_id = auth \/ (row.is_active /\ row.allow_public_access)
    ELSE row.is_active /\ row.allow_public_access

\* policy authenticated_insert_surveys (WITH CHECK); no INSERT policy for anon
SurveyInsertPolicy(row, auth) == auth # Anon /\ row.user_id = auth

\* An UPDATE policy on surveys that lets every caller through.
SurveyUpdatePolicyOpen(row, auth) == TRUE

\* policy authenticated_update_surveys (USING and WITH CHECK)
SurveyUpdatePolicy(row, auth) == auth # Anon /\ row.user_id = auth

\* policy authenticated_delete_surveys
SurveyDeletePolicy(row, auth) == auth # Anon /\ row.user_id = auth

\* policy allow_public_insert: WITH CHECK (true)
ResponseInsertPolicy(row, auth) == TRUE

\* policy allow_authenticated_select: TO authenticated USING (true)
ResponseSelectPolicy(row, auth) == auth # Anon

VisibleSurveys(auth) == {r \in surveys : SurveySelectPolicy(r, auth)}
VisibleResponses(auth) == {r \in responses : ResponseSelectPolicy(r, auth)}

\* ------------------------------------------------------------ call outcomes
Ok(op, args, value) == [op |-> op, args |-> args, ok |-> TRUE, value |-> value]
Err(op, args, error) == [op |-> op, args |-> args, ok |-> FALSE, error |-> error]
NoCall == [op |-> "none"]

\* ------------------------------------------------------- local adapter
\* storageUtils (utils/storage.ts): the two collections as ordered lists.
Range(list) == {list[i] : i \in 1..Len(list)}

IndexOfId(list, id) ==
    IF \E i \in 1..Len(list) : list[i].id = id
    THEN CHOOSE i \in 1..Len(list) : list[i].id = id /\ \A j \in 1..(i - 1) : list[j].id # id
    ELSE 0

\* storageUtils.saveSurvey: upsert by matching on id
storageSaveSurvey(list, survey) ==
    IF IndexOfId(list, survey.id) = 0
    THEN Append(list, survey)
    ELSE [list EXCEPT ![IndexOfId(list, survey.id)] = survey]

\* storageUtils.deleteSurvey: the survey's entry is filtered out of the surveys
storageDeleteSurveys(list, surveyId) ==
    LET keep(s) == s.id # surveyId IN SelectSeq(list, keep)

\* storageUtils.deleteSurvey: the survey's responses are filtered out of the responses
storageDeleteResponses(list, surveyId) ==
    LET keep(r) == r.surveyId # surveyId IN SelectSeq(list, keep)

\* storageUtils.saveResponse: the response is appended
storageSaveResponse(list, response) == Append(list, response)

\* storageUtils.getResponsesForSurvey
storageGetResponsesForSurvey(list, surveyId) ==
    LET keep(r) == r.surveyId = surveyId IN SelectSeq(list, keep)

\* storageUtils.getSurveyByPublicId: the survey of that public id, if it is active,
\* public and unexpired
storageGetSurveyByPublicId(list, publicId) ==
    LET hits == {i \in 1..Len(list) :
                    /\ list[i].publicId = publicId
                    /\ list[i].isActive
                    /\ list[i].allowPublicAccess
                    /\ (Truthy(list[i].expiresAt) => now < list[i].expiresAt.v)}
    IN IF hits = {} THEN Null
       ELSE Val(list[CHOOSE i \in hits : \A j \in hits : i <= j])

\* storageUtils.getSurveys
storageGetSurveys(list) == list

\* --------------------------------------------------------- backend: writes
SurveyRow(id) == CHOOSE r \in surveys : r.id = id
HasSurvey(id) == \E r \in surveys : r.id = id

\* database.ts:74-84: the payload of the upsert; a key whose value is undefined is
\* deleted, so that column is not written.
PayloadColumn(value, stored) == IF value = Undefined THEN stored ELSE value

\* database.ts:94-100 upsert(surveyData, onConflict id): the row written over `base`,
\* the existing row on conflict, the column defaults on insert.
UpsertedRow(survey, user, base) ==
    LET data == transformAppSurvey(survey) IN
    [id |-> data.id, public_id |-> data.public_id, title |-> data.title,
     description |-> data.description, questions |-> data.questions,
     is_active |-> data.is_active, allow_public_access |-> data.allow_public_access,
     response_limit |-> PayloadColumn(data.response_limit, base.response_limit),
     expires_at |-> PayloadColumn(data.expires_at, base.expires_at),
     user_id |-> user]

\* table surveys: response_limit integer, expires_at timestamptz (no default)
ColumnDefaults == [response_limit |-> Null, expires_at |-> Null]

\* The message of the error the backend reports with an SQLSTATE code.
ErrorMessage(code) ==
    IF code = "23505" THEN "duplicate key value violates unique constraint"
    ELSE IF code = "42501" THEN "new row violates row-level security policy"
    ELSE IF code = "23503" THEN "violates foreign key constraint"
    ELSE ""

\* The error of a request that did not reach the backend: no code, the message of
\* the failed fetch.
FetchFailed == "TypeError: Failed to fetch"

\* A request the backend refuses with a code, and a request that fails to reach it:
\* the table is unchanged, { data: null, error: { code, message } }.
Refused(table, code) == [table |-> table, code |-> code, message |-> ErrorMessage(code)]
Unreached(table) == [table |-> table, code |-> "", message |-> FetchFailed]

\* error.message.includes('violates row-level security') (database.ts:116, 244)
ViolatesRowLevelSecurity(message) == message = ErrorMessage("42501")

\* The backend's answer to the upsert: the new table and the error, code and message
\* ("" if there is none).
UpsertSurvey(survey, user, auth) ==
    LET exists == HasSurvey(survey.id)
        old == SurveyRow(survey.id)
        new == UpsertedRow(survey, user, IF exists THEN old ELSE ColumnDefaults)
        others == {r \in surveys : r.id # survey.id}
    IN  IF backendDown THEN Unreached(surveys)
        ELSE IF ~SurveyInsertPolicy(new, auth) THEN Refused(surveys, "42501")
        ELSE IF exists /\ ~SurveyUpdatePolicy(old, auth) THEN Refused(surveys, "42501")
        ELSE IF \E r \in others : r.public_id = new.public_id THEN Refused(surveys, "23505")
        ELSE [table |-> others \cup {new}, code |-> "", message |-> "", row |-> new]

\* An error mapping of saveSurvey that gives every backend error the same message.
saveSurveyErrorFlat(error) == "Failed to save survey"

\* database.ts:102-121: the error saveSurvey throws for the backend's error
saveSurveyError(error) ==
    IF error.code = "23505" THEN "A survey with this ID already exists"
    ELSE IF error.code = "42501" THEN "Permission denied. Please ensure you are signed in."
    ELSE IF ViolatesRowLevelSecurity(error.message)
    THEN "Access denied. Please sign in to save surveys."
    ELSE "Database error: " \o error.message

\* saveSurvey without the test of the user context (database.ts:62-64 left out).
saveSurveyUnguarded(survey, user, auth) ==
    LET args == [id |-> survey.id, user |-> user, auth |-> auth] IN
    IF useFallback
    THEN [surveys |-> surveys, localSurveys |-> storageSaveSurvey(localSurveys, survey),
          out |-> Ok("saveSurvey", [survey |-> survey, user |-> user, auth |-> auth], survey)]
    ELSE IF survey.title = ""
    THEN [surveys |-> surveys, localSurveys |-> localSurveys,
          out |-> Err("saveSurvey", args, "Survey title and questions are required")]
    ELSE LET r == UpsertSurvey(survey, user, auth) IN
         [surveys |-> r.table, localSurveys |-> localSurveys,
          out |-> IF r.message = ""
                  THEN Ok("saveSurvey", [survey |-> survey, user |-> user, auth |-> auth],
                          transformDatabaseSurvey(r.row))
                  ELSE Err("saveSurvey", args, saveSurveyError(r))]

\* database.ts:55-129
saveSurvey(survey, user, auth) ==
    LET args == [id |-> survey.id, user |-> user, auth |-> auth] IN
    IF useFallback
    THEN [surveys |-> surveys, localSurveys |-> storageSaveSurvey(localSurveys, survey),
          out |-> Ok("saveSurvey", [survey |-> survey, user |-> user, auth |-> auth], survey)]
    ELSE IF user = NoUser
    THEN [surveys |-> surveys, localSurveys |-> localSurveys,
          out |-> Err("saveSurvey", args, "Authentication required to save surveys")]
    ELSE IF survey.title = ""
    THEN [surveys |-> surveys, localSurveys |-> localSurveys,
          out |-> Err("saveSurvey", args, "Survey title and questions are required")]
    ELSE LET r == UpsertSurvey(survey, user, auth) IN
         [surveys |-> r.table, localSurveys |-> localSurveys,
          out |-> IF r.message = ""
                  THEN Ok("saveSurvey", [survey |-> survey, user |-> user, auth |-> auth],
                          transformDatabaseSurvey(r.row))
                  ELSE Err("saveSurvey", args, saveSurveyError(r))]

\* deleteSurvey failing when the request removed no row.
deleteSurveyStrict(surveyId, user, auth) ==
    LET args == [id |-> surveyId, user |-> user, auth |-> auth]
        gone == {r \in surveys : /\ r.id = surveyId
                                 /\ (user # NoUser => r.user_id = user)
                                 /\ SurveyDeletePolicy(r, auth)}
    IN  [surveys |-> surveys \ gone,
         responses |-> {r \in responses : \A g \in gone : r.survey_id # g.id},
         localSurveys |-> storageDeleteSurveys(localSurveys, surveyId),
         localResponses |-> storageDeleteResponses(localResponses, surveyId),
         out |-> IF ~useFallback /\ gone = {}
                 THEN Err("deleteSurvey", args, "Failed to delete survey")
                 ELSE Ok("deleteSurvey", args, Null)]

\* deleteSurvey returning although the backend reported an error.
deleteSurveySwallowing(surveyId, user, auth) ==
    LET args == [id |-> surveyId, user |-> user, auth |-> auth]
        gone == {r \in surveys : /\ r.id = surveyId
                                 /\ (user # NoUser => r.user_id = user)
                                 /\ SurveyDeletePolicy(r, auth)}
    IN  IF useFallback
        THEN [surveys |-> surveys, responses |-> responses,
              localSurveys |-> storageDeleteSurveys(localSurveys, surveyId),
              localResponses |-> storageDeleteResponses(localResponses, surveyId),
              out |-> Ok("deleteSurvey", args, Null)]
        ELSE IF backendDown
        THEN [surveys |-> surveys, responses |-> responses,
              localSurveys |-> localSurveys, localResponses |-> localResponses,
              out |-> Ok("deleteSurvey", args, Null)]
        ELSE [surveys |-> surveys \ gone,
              responses |-> {r \in responses : \A g \in gone : r.survey_id # g.id},
              localSurveys |-> localSurveys, localResponses |-> localResponses,
              out |-> Ok("deleteSurvey", args, Null)]

\* database.ts:178-197; table responses: survey_id REFERENCES surveys ON DELETE CASCADE
deleteSurvey(surveyId, user, auth) ==
    LET args == [id |-> surveyId, user |-> user, auth |-> auth]
        gone == {r \in surveys : /\ r.id = surveyId
                                 /\ (user # NoUser => r.user_id = user)
                                 /\ SurveyDeletePolicy(r, auth)}
    IN  IF useFallback
        THEN [surveys |-> surveys, responses |-> responses,
              localSurveys |-> storageDeleteSurveys(localSurveys, surveyId),
              localResponses |-> storageDeleteResponses(localResponses, surveyId),
              out |-> Ok("deleteSurvey", args, Null)]
        ELSE IF backendDown
        THEN [surveys |-> surveys, responses |-> responses,
              localSurveys |-> localSurveys, localResponses |-> localResponses,
              out |-> Err("deleteSurvey", args, "Failed to delete survey")]
        ELSE [surveys |-> surveys \ gone,
              responses |-> {r \in responses : \A g \in gone : r.survey_id # g.id},
              localSurveys |-> localSurveys, localResponses |-> localResponses,
              out |-> Ok("deleteSurvey", args, Null)]

\* An insert that overwrites the stored row of the same id (an upsert).
InsertResponseOverwriting(row, auth) ==
    IF backendDown THEN Unreached(responses)
    ELSE IF ~(ResponseInsertPolicy(row, auth) /\ ResponseSelectPolicy(row, auth))
    THEN Refused(responses, "42501")
    ELSE IF ~HasSurvey(row.survey_id) THEN Refused(responses, "23503")
    ELSE [table |-> {r \in responses : r.id # row.id} \cup {row}, code |-> "", message |-> ""]

\* The backend's answer to insert([responseData]).select().single(): the new table
\* and the error code.  The row is returned, so it must also pass the SELECT policy.
InsertResponse(row, auth) ==
    IF backendDown THEN Unreached(responses)
    ELSE IF ~(ResponseInsertPolicy(row, auth) /\ ResponseSelectPolicy(row, auth))
    THEN Refused(responses, "42501")
    ELSE IF \E r \in responses : r.id = row.id THEN Refused(responses, "23505")
    ELSE IF ~HasSurvey(row.survey_id) THEN Refused(responses, "23503")
    ELSE [table |-> responses \cup {row}, code |-> "", message |-> ""]

\* database.ts:227-249: the error saveResponse throws for the backend's error
saveResponseError(error) ==
    IF error.code = "23503" THEN "Survey not found or no longer accepting responses"
    ELSE IF error.code = "42501" THEN "Permission denied. Survey may be inactive."
    ELSE IF error.message = "infinite recursion detected in policy"
    THEN "Database configuration error. Please contact support."
    ELSE IF ViolatesRowLevelSecurity(error.message)
    THEN "Unable to submit response. Survey may be inactive or expired."
    ELSE "Database error: " \o error.message

\* database.ts:200-257
saveResponse(response, auth) ==
    LET args == [id |-> response.id, surveyId |-> response.surveyId, auth |-> auth]
        responseData == [id |-> response.id, survey_id |-> response.surveyId,
                         answers |-> response.answers]
        r == InsertResponse(responseData, auth)
    IN  IF useFallback
        THEN [responses |-> responses,
              localResponses |-> storageSaveResponse(localResponses, response),
              out |-> Ok("saveResponse", args, response)]
        ELSE [responses |-> r.table, localResponses |-> localResponses,
              out |-> IF r.message = ""
                      THEN Ok("saveResponse", args, transformDatabaseResponse(responseData))
                      ELSE Err("saveResponse", args, saveResponseError(r))]

\* ---------------------------------------------------------- facade: reads
\* getSurveys without the owner filter: the backend's SELECT policy alone decides.
getSurveysUnfiltered(user, auth) ==
    LET args == [user |-> user, auth |-> auth] IN
    IF useFallback
    THEN Ok("getSurveys", args, storageGetSurveys(localSurveys))
    ELSE Ok("getSurveys", args, {transformDatabaseSurvey(r) : r \in VisibleSurveys(auth)})

\* database.ts:131-152
getSurveys(user, auth) ==
    LET args == [user |-> user, auth |-> auth]
        data == {r \in VisibleSurveys(auth) : user # NoUser => r.user_id = user}
    IN  IF useFallback
        THEN Ok("getSurveys", args, storageGetSurveys(localSurveys))
        ELSE IF backendDown THEN Err("getSurveys", args, "Failed to fetch surveys")
        ELSE Ok("getSurveys", args, {transformDatabaseSurvey(r) : r \in data})

\* database.ts:154-176; .single() answers PGRST116 unless exactly one row matches
getSurveyByPublicId(publicId, auth) ==
    LET args == [publicId |-> publicId, auth |-> auth]
        data == {r \in VisibleSurveys(auth) : /\ r.public_id = publicId
                                              /\ r.is_active = TRUE
                                              /\ r.allow_public_access = TRUE}
    IN  IF useFallback
        THEN Ok("getSurveyByPublicId", args, storageGetSurveyByPublicId(localSurveys, publicId))
        ELSE IF backendDown THEN Err("getSurveyByPublicId", args, "Failed to fetch survey")
        ELSE IF Cardinality(data) # 1
        THEN Ok("getSurveyByPublicId", args, Null)
        ELSE Ok("getSurveyByPublicId", args,
                Val(transformDatabaseSurvey(CHOOSE r \in data : TRUE)))

\* database.ts:259-290 without the ownership test of lines 265-276.
getResponsesForSurveyUnchecked(surveyId, user, auth) ==
    LET args == [surveyId |-> surveyId, user |-> user, auth |-> auth]
        data == {r \in VisibleResponses(auth) : r.survey_id = surveyId}
    IN  IF useFallback
        THEN Ok("getResponsesForSurvey", args,
                storageGetResponsesForSurvey(localResponses, surveyId))
        ELSE Ok("getResponsesForSurvey", args, {transformDatabaseResponse(r) : r \in data})

\* database.ts:259-290 without the survey_id filter on the response rows.
getResponsesForSurveyUnfiltered(surveyId, user, auth) ==
    LET args == [surveyId |-> surveyId, user |-> user, auth |-> auth]
        survey == {r \in VisibleSurveys(auth) : r.id = surveyId /\ r.user_id = user}
    IN  IF useFallback
        THEN Ok("getResponsesForSurvey", args, localResponses)
        ELSE IF user # NoUser /\ Cardinality(survey) # 1
        THEN Err("getResponsesForSurvey", args, "Survey not found or access denied")
        ELSE Ok("getResponsesForSurvey", args,
                {transformDatabaseResponse(r) : r \in VisibleResponses(auth)})

\* database.ts:259-290
getResponsesForSurvey(surveyId, user, auth) ==
    LET args == [surveyId |-> surveyId, user |-> user, auth |-> auth]
        survey == {r \in VisibleSurveys(auth) : r.id = surveyId /\ r.user_id = user}
        data == {r \in VisibleResponses(auth) : r.survey_id = surveyId}
    IN  IF useFallback
        THEN Ok("getResponsesForSurvey", args,
                storageGetResponsesForSurvey(localResponses, surveyId))
        ELSE IF user # NoUser /\ (backendDown \/ Cardinality(survey) # 1)
        THEN Err("getResponsesForSurvey", args, "Survey not found or access denied")
        ELSE IF backendDown
        THEN Err("getResponsesForSurvey", args, "Failed to fetch responses")
        ELSE Ok("getResponsesForSurvey", args, {transformDatabaseResponse(r) : r \in data})

\* storageUtils.getResponses
storageGetResponses(list) == list

\* database.ts:292-317.  With a user context the filter .in('survey_id', <query>) is
\* given a query builder where a list of values is expected: building the request
\* throws before anything is sent.
getAllResponses(user, auth) ==
    LET args == [user |-> user, auth |-> auth] IN
    IF useFallback
    THEN Ok("getAllResponses", args, storageGetResponses(localResponses))
    ELSE IF user # NoUser
    THEN Err("getAllResponses", args, "TypeError")
    ELSE IF backendDown THEN Err("getAllResponses", args, "Failed to fetch responses")
    ELSE Ok("getAllResponses", args,
            {transformDatabaseResponse(r) : r \in VisibleResponses(auth)})

CanSubmit == [canSubmit |-> TRUE, reason |-> ""]
CannotSubmit(reason) == [canSubmit |-> FALSE, reason |-> reason]

\* database.ts:320-342, the local branch
checkSurveyLimitsFallback(surveyId) ==
    LET found == {s \in Range(storageGetSurveys(localSurveys)) : s.id = surveyId}
        survey == localSurveys[IndexOfId(localSurveys, surveyId)]
        stored == storageGetResponsesForSurvey(localResponses, surveyId)
    IN  IF found = {} THEN CannotSubmit("Survey not found")
        ELSE IF Truthy(survey.expiresAt) /\ now > survey.expiresAt.v
        THEN CannotSubmit("Survey has expired")
        ELSE IF Truthy(survey.responseLimit) /\ Len(stored) >= survey.responseLimit.v
        THEN CannotSubmit("Response limit reached")
        ELSE CanSubmit

\* database.ts:344-375, the remote branch; count is the number of response rows the
\* caller's SELECT returns
checkSurveyLimitsRemote(surveyId, auth) ==
    LET found == {r \in VisibleSurveys(auth) : r.id = surveyId}
        survey == CHOOSE r \in found : TRUE
        count == Cardinality({r \in VisibleResponses(auth) : r.survey_id = surveyId})
    IN  IF backendDown \/ Cardinality(found) # 1 THEN CannotSubmit("Survey not found")
        ELSE IF Truthy(survey.expires_at) /\ now > survey.expires_at.v
        THEN CannotSubmit("Survey has expired")
        ELSE IF Truthy(survey.response_limit) /\ count # 0 /\ count >= survey.response_limit.v
        THEN CannotSubmit("Response limit reached")
        ELSE CanSubmit

\* database.ts:320-376
checkSurveyLimits(surveyId, auth) ==
    Ok("checkSurveyLimits", [surveyId |-> surveyId, auth |-> auth],
       IF useFallback THEN checkSurveyLimitsFallback(surveyId)
       ELSE checkSurveyLimitsRemote(surveyId, auth))

\* ------------------------------------------------------------------ callers
\* The stored surveys, as the application sees a survey.
StoredSurveys ==
    IF useFallback THEN Range(localSurveys)
    ELSE {transformDatabaseSurvey(r) : r \in surveys}

\* The user context a caller passes and the session its requests carry: the context
\* is absent or the session's user (AuthContext mirrors the session); the local mode
\* has no session and the synthetic user.
Contexts ==
    IF useFallback
    THEN {[user |-> u, auth |-> Anon] : u \in {NoUser, {MockUser}}}
    ELSE {[user |-> u, auth |-> a] : u \in {NoUser} \cup {{x} : x \in Users},
                                      a \in {Anon} \cup {{x} : x \in Users}}
         \ {c \in [user : {{x} : x \in Users}, auth : {Anon} \cup {{x} : x \in Users}] :
                c.user # c.auth}

\* An unset optional field is undefined when the builder built the survey
\* (SurveyBuilder.tsx:125-126) and null when the survey was read from the backend
\* (SurveyList.tsx:47); the local store keeps what the builder built.
Unset == IF useFallback THEN {Undefined} ELSE {Undefined, Null}
\* The contexts of a write: the builder and the survey list pass the current user
\* of the session, `user || undefined` (SurveyBuilder.tsx:130, SurveyList.tsx:34,48).
WriteContexts == {c \in Contexts : c.user = c.auth \/ useFallback}

\* The sessions of the callers: anonymous, or signed in as a user.
Sessions == {c.auth : c \in Contexts}

OptLimits == Unset \cup {Val(l) : l \in Limits}
OptExpiry == Unset \cup {Val(t) : t \in ExpiryTimes}

\* generateUUID (SurveyBuilder.tsx:8-14): an identifier no stored survey carries
FreshPublicId ==
    CHOOSE p \in PublicIds \cup {"p0"} :
        /\ p \notin {x.publicId : x \in StoredSurveys}
        /\ (p = "p0" <=> PublicIds \subseteq {x.publicId : x \in StoredSurveys})

\* A builder that generates a new publicId on every save, edits included.
BuilderSurveysRegenerating(user) ==
    LET owned(id) == IF useFallback THEN id \in {x.id : x \in StoredSurveys}
                     ELSE \E r \in surveys : r.id = id /\ r.user_id = user
        taken(id) == \E x \in StoredSurveys : x.id = id
    IN  {Survey(id, FreshPublicId, t, a, p, l, e) :
            id \in {x \in SurveyIds : owned(x) \/ ~taken(x)},
            t \in Titles, a \in BOOLEAN, p \in BOOLEAN,
            l \in {Undefined} \cup {Val(x) : x \in Limits},
            e \in {Undefined} \cup {Val(x) : x \in ExpiryTimes}}

\* SurveyBuilder.tsx:115-128: the survey handleSave builds for the signed-in user. A
\* new survey gets a fresh publicId; an edited survey, one of the user's own, keeps
\* its publicId; an unset limit or expiry is undefined.
BuilderSurveys(user) ==
    LET owned(id) == IF useFallback THEN id \in {x.id : x \in StoredSurveys}
                     ELSE \E r \in surveys : r.id = id /\ r.user_id = user
        taken(id) == \E x \in StoredSurveys : x.id = id
        publicIdOf(id) == IF taken(id) THEN (CHOOSE x \in StoredSurveys : x.id = id).publicId
                          ELSE FreshPublicId
    IN  {Survey(id, publicIdOf(id), t, a, p, l, e) :
            id \in {x \in SurveyIds : owned(x) \/ ~taken(x)},
            t \in Titles, a \in BOOLEAN, p \in BOOLEAN,
            l \in {Undefined} \cup {Val(x) : x \in Limits},
            e \in {Undefined} \cup {Val(x) : x \in ExpiryTimes}}

\* The users who publish surveys in the submission workload; every user submits.
Publishers == {"uA", MockUser}

\* The surveys a caller saves: those the builder and the status toggle build.
SurveyInputs ==
    {Survey(id, pid, t, a, p, l, e) :
        id \in SurveyIds, pid \in PublicIds, t \in Titles,
        a \in BOOLEAN, p \in BOOLEAN, l \in OptLimits, e \in OptExpiry}

\* ------------------------------------------------------------------ claims
\* Two optional fields agree: both unset (undefined or null), or the same value.
SameOpt(a, b) == (Truthy(a) \/ Truthy(b)) => a = b

PubliclyReachable(S) ==
    /\ S.isActive
    /\ S.allowPublicAccess
    /\ (~Truthy(S.expiresAt) \/ now < S.expiresAt.v)

\* C1: getSurveyByPublicId(S.publicId) returns S if and only if S is active, public
\* and unexpired (expiresAt unset or now < expiresAt); in every other case, an expired
\* survey whose row still exists and an unknown publicId included, it returns absent.
C1_PublicLookup ==
    result.op = "getSurveyByPublicId" =>
        /\ \A S \in StoredSurveys :
              S.publicId = result.args.publicId =>
                  ((result.value # Null /\ result.value.v.id = S.id) <=> PubliclyReachable(S))
        /\ (\A S \in StoredSurveys :
              S.publicId = result.args.publicId => ~PubliclyReachable(S))
           => result.value = Null

\* C7: after saveSurvey(S, U) succeeds, getSurveys(U) contains a survey with S.id whose
\* publicId, title, description, questions, isActive, allowPublicAccess, responseLimit
\* and expiresAt equal those of S.
RoundTrips(S, listed) ==
    \E s \in listed :
        /\ s.id = S.id
        /\ s.publicId = S.publicId
        /\ s.title = S.title
        /\ s.description = S.description
        /\ s.questions = S.questions
        /\ s.isActive = S.isActive
        /\ s.allowPublicAccess = S.allowPublicAccess
        /\ SameOpt(s.responseLimit, S.responseLimit)
        /\ SameOpt(s.expiresAt, S.expiresAt)

Listed(user, auth) ==
    LET v == getSurveys(user, auth).value IN IF useFallback THEN Range(v) ELSE v

C7_RoundTrip ==
    (result.op = "saveSurvey" /\ result.ok) =>
        RoundTrips(result.args.survey, Listed(result.args.user, result.args.auth))

\* C9: in remote mode getSurveys called with A's context returns only surveys whose
\* stored owner is A, so never a survey, private or public, owned by another user B.
C9_OwnershipIsolation ==
    (~useFallback /\ result.op = "getSurveys" /\ result.args.user # NoUser) =>
        \A s \in result.value :
            \E r \in surveys : r.id = s.id /\ r.user_id = result.args.user

\* C9 witness: A lists A's surveys and gets one, while B owns an active public survey
\* that the backend's SELECT policy would show to A.
C9_Witness ==
    /\ ~useFallback
    /\ result.op = "getSurveys"
    /\ result.args.user = {"uA"}
    /\ result.value # {}
    /\ \E r \in surveys : r.user_id = {"uB"} /\ SurveySelectPolicy(r, {"uA"})

\* The backend admits a response for the survey: it is active, public and unexpired.
Admissible(surveyId) ==
    \E r \in surveys :
        /\ r.id = surveyId
        /\ r.is_active
        /\ r.allow_public_access
        /\ (~Truthy(r.expires_at) \/ r.expires_at.v > now)

StoredFor(surveyId) == {r \in responses : r.survey_id = surveyId}

\* C3: against the backend, saveResponse stores the response only if the referenced
\* survey exists and is active, public and unexpired at the time of the insert;
\* otherwise the call fails and the stored responses are unchanged.
C3_AdmissionOnInsert ==
    [][(~useFallback /\ result'.op = "saveResponse" /\ ~Admissible(result'.args.surveyId))
          => (~result'.ok /\ responses' = responses)]_vars

\* What checkSurveyLimits is to answer, from the stored surveys and responses.
ExpectedLimits(surveyId) ==
    LET found == {S \in StoredSurveys : S.id = surveyId}
        S == CHOOSE x \in found : TRUE
        count == IF useFallback
                 THEN Len(storageGetResponsesForSurvey(localResponses, surveyId))
                 ELSE Cardinality(StoredFor(surveyId))
    IN  IF found = {} THEN CannotSubmit("Survey not found")
        ELSE IF Truthy(S.expiresAt) /\ now > S.expiresAt.v THEN CannotSubmit("Survey has expired")
        ELSE IF Truthy(S.responseLimit) /\ count >= S.responseLimit.v
        THEN CannotSubmit("Response limit reached")
        ELSE CanSubmit

\* C4: checkSurveyLimits(id) answers 'Survey not found' when no survey has that id,
\* else 'Survey has expired' when expiresAt is set and the time is past it, else
\* 'Response limit reached' when a limit L is set and at least L responses are stored
\* for the survey, else canSubmit = true; it changes neither surveys nor responses.
C4_CheckLimitsPrecedence ==
    [][result'.op = "checkSurveyLimits"
          => /\ result'.value = ExpectedLimits(result'.args.surveyId)
             /\ UNCHANGED <<surveys, responses, localSurveys, localResponses>>]_vars

\* The backend would accept a response for the survey from this session.
WouldAccept(surveyId, auth) ==
    InsertResponse([id |-> 0, survey_id |-> surveyId, answers |-> <<"Yes">>], auth).message = ""

\* C6: checkSurveyLimits reports canSubmit = true exactly when the backend would accept
\* a response insert for that survey in that state.
C6_AdvisoryAgreesWithBackend ==
    (~useFallback /\ result.op = "checkSurveyLimits") =>
        (result.value.canSubmit <=> WouldAccept(result.args.surveyId, result.args.auth))

\* C8: a second deleteSurvey(id), and a deleteSurvey of an id that never existed,
\* raises no error and leaves the surveys and the responses as they are.
C8_DeleteIdempotent ==
    /\ result.op = "deleteSurvey" =>
          LET again == deleteSurvey(result.args.id, result.args.user, result.args.auth) IN
          /\ result.ok
          /\ again.out.ok
          /\ again.surveys = surveys
          /\ again.responses = responses
          /\ again.localSurveys = localSurveys
          /\ again.localResponses = localResponses
    /\ \A id \in SurveyIds, c \in WriteContexts :
          (\A S \in StoredSurveys : S.id # id) =>
              LET absent == deleteSurvey(id, c.user, c.auth) IN
              /\ absent.out.ok
              /\ absent.surveys = surveys
              /\ absent.responses = responses
              /\ absent.localSurveys = localSurveys
              /\ absent.localResponses = localResponses

\* C8 witness: the owner's deleteSurvey has removed the survey, and the responses of
\* another survey are still stored.
C8_Witness ==
    /\ result.op = "deleteSurvey"
    /\ result.args.user = {"uA"}
    /\ ~HasSurvey(result.args.id)
    /\ responses # {}

\* C10: for a survey S owned by U, getResponsesForSurvey(S.id, U) returns exactly the
\* stored responses of S, one per successful saveResponse for S and none of another
\* survey, each with the answers it was submitted with; and a successful saveResponse
\* has stored the response it returns.
C10_OwnerReadsSubmitted ==
    /\ (result.op = "saveResponse" /\ result.ok) =>
          /\ result.value.id = result.args.id
          /\ result.value.surveyId = result.args.surveyId
          /\ \E r \in StoredFor(result.args.surveyId) :
                transformDatabaseResponse(r) = result.value
    /\ (/\ ~useFallback
        /\ result.op = "getResponsesForSurvey"
        /\ result.args.user # NoUser
        /\ \E r \in surveys : r.id = result.args.surveyId /\ r.user_id = result.args.user)
       => /\ result.ok
          /\ result.value = {transformDatabaseResponse(r) : r \in StoredFor(result.args.surveyId)}
          /\ Cardinality(result.value) = Cardinality(StoredFor(result.args.surveyId))

\* C10 witness: the owner reads exactly one response, answering "Yes", while the other
\* survey has a response of its own.
C10_Witness ==
    /\ result.op = "getResponsesForSurvey"
    /\ result.ok
    /\ result.args.user = {"uA"}
    /\ Cardinality(result.value) = 1
    /\ \A x \in result.value : x.answers = <<"Yes">>
    /\ Cardinality(responses) = 2

Init ==
    /\ isSupabaseConfigured \in BOOLEAN
    /\ now = 0
    /\ surveys = {}
    /\ responses = {}
    /\ localSurveys = <<>>
    /\ localResponses = <<>>
    /\ result = NoCall
    /\ forms = [f \in FormIds |-> ListView]
    /\ backendDown = FALSE
    /\ authState = InitialAuthState
    /\ supabaseAuth = AuthClient(Anon)
    /\ consumers = NoConsumers
    /\ requests = {}

\* The clock advances.
Tick ==
    /\ result = NoCall
    /\ now < MaxTime
    /\ now' = now + 1
    /\ result' = NoCall
    /\ UNCHANGED <<authState, supabaseAuth, backendDown, consumers, requests, isSupabaseConfigured, surveys, responses, localSurveys, localResponses, forms>>

\* A caller saves a survey.
SaveSurveyCall ==
    /\ result = NoCall
    /\ \E survey \in SurveyInputs, c \in Contexts :
        LET r == saveSurvey(survey, c.user, c.auth) IN
        /\ surveys' = r.surveys
        /\ localSurveys' = r.localSurveys
        /\ result' = r.out
        /\ UNCHANGED <<authState, supabaseAuth, backendDown, consumers, requests, isSupabaseConfigured, now, responses, localResponses, forms>>

\* A caller deletes a survey.
DeleteSurveyCall ==
    /\ result = NoCall
    /\ \E id \in SurveyIds, c \in Contexts :
        LET r == deleteSurvey(id, c.user, c.auth) IN
        /\ surveys' = r.surveys
        /\ responses' = r.responses
        /\ localSurveys' = r.localSurveys
        /\ localResponses' = r.localResponses
        /\ result' = r.out
        /\ UNCHANGED <<authState, supabaseAuth, backendDown, consumers, requests, isSupabaseConfigured, now, forms>>

\* A caller submits a response.
SaveResponseCall ==
    /\ result = NoCall
    /\ \E id \in ResponseIds, sid \in SurveyIds, v \in AnswerValues, auth \in Sessions :
        LET r == saveResponse(Response(id, sid, <<v>>), auth) IN
        /\ useFallback => Len(localResponses) < MaxResponses
        /\ responses' = r.responses
        /\ localResponses' = r.localResponses
        /\ result' = r.out
        /\ UNCHANGED <<authState, supabaseAuth, backendDown, consumers, requests, isSupabaseConfigured, now, surveys, localSurveys, forms>>

\* A caller lists the surveys.
GetSurveysCall ==
    /\ result = NoCall
    /\ \E c \in Contexts : result' = getSurveys(c.user, c.auth)
    /\ UNCHANGED <<authState, supabaseAuth, backendDown, consumers, requests, isSupabaseConfigured, now, surveys, responses, localSurveys, localResponses, forms>>

\* A visitor opens a public link.
GetSurveyByPublicIdCall ==
    /\ result = NoCall
    /\ \E publicId \in PublicIds, auth \in Sessions :
           result' = getSurveyByPublicId(publicId, auth)
    /\ UNCHANGED <<authState, supabaseAuth, backendDown, consumers, requests, isSupabaseConfigured, now, surveys, responses, localSurveys, localResponses, forms>>

\* SurveyBuilder.tsx:92-138: the signed-in user saves a survey from the builder.
HandleSave ==
    /\ result = NoCall
    /\ \E c \in WriteContexts :
        /\ c.user # NoUser
        /\ c.user \subseteq Publishers
        /\ \E survey \in BuilderSurveys(c.user) :
            LET r == saveSurvey(survey, c.user, c.auth) IN
            /\ surveys' = r.surveys
            /\ localSurveys' = r.localSurveys
            /\ result' = r.out
    /\ UNCHANGED <<authState, supabaseAuth, backendDown, consumers, requests, isSupabaseConfigured, now, responses, localResponses, forms>>

\* A caller reads the responses of a survey.
GetResponsesForSurveyCall ==
    /\ result = NoCall
    /\ \E id \in SurveyIds, c \in Contexts :
           result' = getResponsesForSurvey(id, c.user, c.auth)
    /\ UNCHANGED <<authState, supabaseAuth, backendDown, consumers, requests, isSupabaseConfigured, now, surveys, responses, localSurveys, localResponses, forms>>

\* A caller reads all the responses.
GetAllResponsesCall ==
    /\ result = NoCall
    /\ \E c \in Contexts : result' = getAllResponses(c.user, c.auth)
    /\ UNCHANGED <<authState, supabaseAuth, backendDown, consumers, requests, isSupabaseConfigured, now, surveys, responses, localSurveys, localResponses, forms>>

\* A caller asks whether a survey still takes responses.
CheckSurveyLimitsCall ==
    /\ result = NoCall
    /\ \E id \in SurveyIds, auth \in Sessions : result' = checkSurveyLimits(id, auth)
    /\ UNCHANGED <<authState, supabaseAuth, backendDown, consumers, requests, isSupabaseConfigured, now, surveys, responses, localSurveys, localResponses, forms>>

\* App.tsx:36-54 with the test of line 45 reduced to the lookup having returned.
loadPublicSurveyUnchecked(survey, auth) ==
    IF survey.ok
    THEN FormView("public", IF Truthy(survey.value) THEN survey.value.v ELSE survey.value, auth)
    ELSE ListView

\* App.tsx:36-54: what the application shows once the lookup of the public link has
\* returned or thrown: the public form of an active survey, else the list as before.
loadPublicSurvey(survey, auth) ==
    IF survey.ok /\ Truthy(survey.value) /\ survey.value.v.isActive
    THEN FormView("public", survey.value.v, auth)
    ELSE ListView

\* App.tsx:36-54: an application instance starts on /s/{publicId} and shows the
\* public form when the lookup returns an active survey.
LoadPublicSurvey ==
    \E f \in FormIds, publicId \in PublicIds, auth \in Sessions :
        /\ forms[f] = ListView
        /\ forms' = [forms EXCEPT
                        ![f] = loadPublicSurvey(getSurveyByPublicId(publicId, auth), auth)]
        /\ UNCHANGED <<authState, supabaseAuth, backendDown, consumers, requests, isSupabaseConfigured, now, surveys, responses, localSurveys,
                       localResponses, result>>

\* PublicSurveyTaker.tsx:27-38: the effect of the mounted public form reads the
\* responses of its survey and keeps their number; a failed read keeps the count.
LoadResponseCount ==
    \E f \in FormIds :
        /\ forms[f].view = "public"
        /\ forms[f].countPending
        /\ LET read == getResponsesForSurvey(forms[f].survey.id, NoUser, forms[f].auth)
               count == IF ~read.ok THEN forms[f].responseCount
                        ELSE IF useFallback THEN Len(read.value)
                        ELSE Cardinality(read.value)
           IN  forms' = [forms EXCEPT ![f].responseCount = count, ![f].countPending = FALSE]
        /\ UNCHANGED <<authState, supabaseAuth, backendDown, consumers, requests, isSupabaseConfigured, now, surveys, responses, localSurveys,
                       localResponses, result>>

\* App.tsx:22-35, 83-86: the user picks a survey of the loaded list to take it.
HandleTakeSurvey ==
    \E f \in FormIds, auth \in Sessions :
        LET listed == getSurveys(NoUser, auth) IN
        /\ forms[f] = ListView
        /\ listed.ok
        /\ \E survey \in (IF useFallback THEN Range(listed.value) ELSE listed.value) :
               forms' = [forms EXCEPT ![f] = FormView("take", survey, auth)]
        /\ UNCHANGED <<authState, supabaseAuth, backendDown, consumers, requests, isSupabaseConfigured, now, surveys, responses, localSurveys,
                       localResponses, result>>

\* App.tsx:97-106: back from the in-app form to the list.
HandleBackToList ==
    \E f \in FormIds :
        /\ forms[f].view = "take"
        /\ forms' = [forms EXCEPT ![f] = ListView]
        /\ UNCHANGED <<authState, supabaseAuth, backendDown, consumers, requests, isSupabaseConfigured, now, surveys, responses, localSurveys,
                       localResponses, result>>

\* The handleSubmit of a form on valid answers: the response is built and saved; the
\* form shows the thanks on success and an alert with the error otherwise. The id is
\* a generated UUID (PublicSurveyTaker) or the clock reading (SurveyTaker): any id.
HandleSubmit(f) ==
    \E id \in ResponseIds, v \in AnswerValues :
        LET r == saveResponse(Response(id, forms[f].survey.id, <<v>>), forms[f].auth) IN
        /\ useFallback => Len(localResponses) < MaxResponses
        /\ responses' = r.responses
        /\ localResponses' = r.localResponses
        /\ forms' = [forms EXCEPT ![f].isSubmitted = r.out.ok,
                                  ![f].alert = IF r.out.ok THEN "" ELSE r.out.error]
        /\ UNCHANGED <<authState, supabaseAuth, backendDown, consumers, requests, isSupabaseConfigured, now, surveys, localSurveys, result>>

\* PublicSurveyTaker.tsx:41
isExpired(form) == Truthy(form.survey.expiresAt) /\ now > form.survey.expiresAt.v

\* PublicSurveyTaker.tsx:44
isLimitReached(form) ==
    Truthy(form.survey.responseLimit) /\ form.responseCount >= form.survey.responseLimit.v

\* PublicSurveyTaker.tsx:80-111, offered while the form is rendered (235-269)
PublicSurveyTakerHandleSubmit ==
    \E f \in FormIds :
        /\ forms[f].view = "public"
        /\ ~isExpired(forms[f])
        /\ ~isLimitReached(forms[f])
        /\ ~forms[f].isSubmitted
        /\ HandleSubmit(f)

\* SurveyTaker.tsx:53-76, offered while the form is rendered (197)
SurveyTakerHandleSubmit ==
    \E f \in FormIds :
        /\ forms[f].view = "take"
        /\ ~forms[f].isSubmitted
        /\ HandleSubmit(f)

\* SurveyList.tsx:44-55: the owner switches a listed survey on or off.
ToggleSurveyStatus ==
    \E c \in WriteContexts :
        LET listed == getSurveys(c.user, c.auth) IN
        /\ c.user # NoUser
        /\ listed.ok
        /\ \E survey \in (IF useFallback THEN Range(listed.value) ELSE listed.value) :
            LET r == saveSurvey([survey EXCEPT !.isActive = ~survey.isActive], c.user, c.auth) IN
            /\ surveys' = r.surveys
            /\ localSurveys' = r.localSurveys
        /\ UNCHANGED <<authState, supabaseAuth, backendDown, consumers, requests, isSupabaseConfigured, now, responses, localResponses, result, forms>>

\* SurveyList.tsx:30-42: the user deletes a listed survey.
HandleDeleteSurvey ==
    \E c \in WriteContexts :
        LET listed == getSurveys(c.user, c.auth) IN
        /\ result = NoCall
        /\ c.user # NoUser
        /\ listed.ok
        /\ \E survey \in (IF useFallback THEN Range(listed.value) ELSE listed.value) :
            LET r == deleteSurvey(survey.id, c.user, c.auth) IN
            /\ surveys' = r.surveys
            /\ responses' = r.responses
            /\ localSurveys' = r.localSurveys
            /\ localResponses' = r.localResponses
            /\ result' = r.out
        /\ UNCHANGED <<authState, supabaseAuth, backendDown, consumers, requests, isSupabaseConfigured, now, forms>>

\* ---------------------------------------------------------------- the builder
\* Question.type (types/survey.ts), the choice types and one of the others.
QuestionTypes == {"text", "multiple-choice", "multiple-select"}
ChoiceTypes == {"multiple-choice", "multiple-select"}

\* The text a user leaves in an option: nothing, or a label.
OptionTexts == {"", "Option 1", "Option 2"}

\* SurveyBuilder.tsx:24-26: the builder opened without a survey.
BuilderView(auth) == [view |-> "create", auth |-> auth, title |-> "", questions |-> <<>>]

\* App.tsx:73-76: a signed-in user opens the builder for a new survey, in one
\* application instance at a time.
HandleCreateSurvey ==
    \E f \in FormIds, c \in WriteContexts :
        /\ result = NoCall
        /\ \A g \in FormIds : forms[g] = ListView
        /\ c.user # NoUser
        /\ c.user \subseteq Publishers
        /\ forms' = [forms EXCEPT ![f] = BuilderView(c.auth)]
        /\ UNCHANGED <<authState, supabaseAuth, backendDown, consumers, requests, isSupabaseConfigured, now, surveys, responses, localSurveys,
                       localResponses, result>>

\* A step of the open builder that changes its questions or title only.
BuilderEdit(f, title, questions) ==
    /\ result = NoCall
    /\ forms[f].view = "create"
    /\ forms' = [forms EXCEPT ![f].title = title, ![f].questions = questions]
    /\ UNCHANGED <<authState, supabaseAuth, backendDown, consumers, requests, isSupabaseConfigured, now, surveys, responses, localSurveys,
                   localResponses, result>>

\* SurveyBuilder.tsx:24, the title input
SetTitle ==
    \E f \in FormIds, t \in {""} \cup Titles :
        /\ forms[f].view = "create"
        /\ BuilderEdit(f, t, forms[f].questions)

\* SurveyBuilder.tsx:34-42
AddQuestion ==
    \E f \in FormIds :
        /\ forms[f].view = "create"
        /\ Len(forms[f].questions) < MaxQuestions
        /\ BuilderEdit(f, forms[f].title,
                       Append(forms[f].questions,
                              [type |-> "text", title |-> "", options |-> Undefined]))

\* SurveyBuilder.tsx:50-52
DeleteQuestion ==
    \E f \in FormIds :
        /\ forms[f].view = "create"
        /\ \E i \in 1..Len(forms[f].questions) :
               BuilderEdit(f, forms[f].title,
                           SubSeq(forms[f].questions, 1, i - 1)
                             \o SubSeq(forms[f].questions, i + 1, Len(forms[f].questions)))

\* SurveyBuilder.tsx:44-48 from the title input (175-180)
UpdateQuestionTitle ==
    \E f \in FormIds, t \in {"", "Q"} :
        /\ forms[f].view = "create"
        /\ \E i \in 1..Len(forms[f].questions) :
               BuilderEdit(f, forms[f].title, [forms[f].questions EXCEPT ![i].title = t])

\* SurveyBuilder.tsx:44-48 from the type select (188-194): a choice type starts
\* with the options 'Option 1' and 'Option 2', another type has none.
UpdateQuestionType ==
    \E f \in FormIds, type \in QuestionTypes :
        /\ forms[f].view = "create"
        /\ \E i \in 1..Len(forms[f].questions) :
               BuilderEdit(f, forms[f].title,
                   [forms[f].questions EXCEPT
                       ![i].type = type,
                       ![i].options = IF type \in ChoiceTypes
                                      THEN Val(<<"Option 1", "Option 2">>) ELSE Undefined])

\* SurveyBuilder.tsx:67-73
AddOption ==
    \E f \in FormIds :
        /\ forms[f].view = "create"
        /\ \E i \in 1..Len(forms[f].questions) :
            LET q == forms[f].questions[i]
                options == IF Truthy(q.options) THEN q.options.v ELSE <<>>
            IN  /\ q.type \in ChoiceTypes
                /\ Len(options) < MaxOptions
                /\ BuilderEdit(f, forms[f].title,
                       [forms[f].questions EXCEPT ![i].options = Val(Append(options, ""))])

\* SurveyBuilder.tsx:75-82
UpdateOption ==
    \E f \in FormIds :
        /\ forms[f].view = "create"
        /\ \E i \in 1..Len(forms[f].questions) :
            LET q == forms[f].questions[i] IN
            /\ q.type \in ChoiceTypes
            /\ Truthy(q.options)
            /\ \E k \in 1..Len(q.options.v), value \in OptionTexts :
                   BuilderEdit(f, forms[f].title,
                       [forms[f].questions EXCEPT
                           ![i].options = Val([q.options.v EXCEPT ![k] = value])])

\* SurveyBuilder.tsx:84-90, offered while the question has more than two options (236)
DeleteOption ==
    \E f \in FormIds :
        /\ forms[f].view = "create"
        /\ \E i \in 1..Len(forms[f].questions) :
            LET q == forms[f].questions[i] IN
            /\ q.type \in ChoiceTypes
            /\ Truthy(q.options)
            /\ Len(q.options.v) > 2
            /\ \E k \in 1..Len(q.options.v) :
                   BuilderEdit(f, forms[f].title,
                       [forms[f].questions EXCEPT
                           ![i].options = Val(SubSeq(q.options.v, 1, k - 1)
                                               \o SubSeq(q.options.v, k + 1, Len(q.options.v)))])

\* SurveyBuilder.tsx:93-113: the alert of the validation, "" when the form passes
ValidationAlert(form) ==
    IF form.title = "" THEN "Please enter a survey title"
    ELSE IF Len(form.questions) = 0 THEN "Please add at least one question"
    ELSE IF \E i \in 1..Len(form.questions) : form.questions[i].title = ""
    THEN "Please fill in all question titles"
    ELSE IF \E i \in 1..Len(form.questions) :
                /\ form.questions[i].type \in ChoiceTypes
                /\ (~Truthy(form.questions[i].options) \/ Len(form.questions[i].options.v) < 2)
    THEN "Multiple choice questions must have at least 2 options"
    ELSE ""

\* generateUUID (SurveyBuilder.tsx:118): an id no stored survey carries
FreshSurveyId == CHOOSE id \in SurveyIds : \A S \in StoredSurveys : S.id # id

\* SurveyBuilder.tsx:92-138 with the state of the builder's form: a new survey is
\* validated, built and saved; the application returns to the list on success
\* (App.tsx:92-95).
BuilderHandleSave ==
    \E f \in FormIds :
        /\ result = NoCall
        /\ forms[f].view = "create"
        /\ Cardinality(StoredSurveys) < MaxSurveys
        /\ LET form == forms[f]
               surveyData == [Survey(FreshSurveyId, FreshPublicId, form.title, TRUE, TRUE,
                                     Undefined, Undefined)
                                 EXCEPT !.questions = form.questions]
               r == saveSurvey(surveyData, form.auth, form.auth)
           IN  IF ValidationAlert(form) # ""
               THEN /\ result' = Err("handleSave", [form |-> f], ValidationAlert(form))
                    /\ UNCHANGED <<surveys, localSurveys, forms>>
               ELSE /\ surveys' = r.surveys
                    /\ localSurveys' = r.localSurveys
                    /\ result' = r.out
                    /\ forms' = IF r.out.ok THEN [forms EXCEPT ![f] = ListView] ELSE forms
        /\ UNCHANGED <<authState, supabaseAuth, backendDown, consumers, requests, isSupabaseConfigured, now, responses, localResponses>>

\* SurveyBuilder onCancel (App.tsx:97-106): back to the list
HandleCancel ==
    \E f \in FormIds :
        /\ result = NoCall
        /\ forms[f].view = "create"
        /\ forms' = [forms EXCEPT ![f] = ListView]
        /\ UNCHANGED <<authState, supabaseAuth, backendDown, consumers, requests, isSupabaseConfigured, now, surveys, responses, localSurveys,
                       localResponses, result>>

\* The connection to the backend is lost.
BackendFails ==
    /\ result = NoCall
    /\ ~useFallback
    /\ ~backendDown
    /\ backendDown' = TRUE
    /\ UNCHANGED <<authState, supabaseAuth, consumers, requests, isSupabaseConfigured, now, surveys, responses,
                   localSurveys, localResponses, result, forms>>

\* The connection to the backend is back.
BackendRecovers ==
    /\ result = NoCall
    /\ backendDown
    /\ backendDown' = FALSE
    /\ UNCHANGED <<authState, supabaseAuth, consumers, requests, isSupabaseConfigured, now, surveys, responses,
                   localSurveys, localResponses, result, forms>>

\* The caller takes the outcome of its call.
Acknowledge ==
    /\ result # NoCall
    /\ result' = NoCall
    /\ UNCHANGED <<authState, supabaseAuth, backendDown, consumers, requests, isSupabaseConfigured, now, surveys, responses, localSurveys, localResponses, forms>>

\* Survey management: owners save and delete surveys, callers list them and
\* visitors open public links.
Next ==
    \/ Acknowledge
    \/ Tick
    \/ SaveSurveyCall
    \/ DeleteSurveyCall
    \/ GetSurveysCall
    \/ GetSurveyByPublicIdCall

\* Submission: owners publish surveys from the builder and delete them, callers submit
\* responses, read them and ask for the limits.
NextSubmit ==
    \/ Acknowledge
    \/ Tick
    \/ HandleSave
    \/ DeleteSurveyCall
    \/ SaveResponseCall
    \/ GetResponsesForSurveyCall
    \/ GetAllResponsesCall
    \/ CheckSurveyLimitsCall

Spec == Init /\ [][Next]_vars
\* The submission workload runs against the backend.
InitRemote == Init /\ isSupabaseConfigured = TRUE
SpecSubmit == InitRemote /\ [][NextSubmit]_vars

\* Managing surveys from the application: the signed-in user creates and edits
\* surveys in the builder, switches them on and off and deletes them in the list.
NextManage ==
    \/ Acknowledge
    \/ HandleSave
    \/ ToggleSurveyStatus
    \/ HandleDeleteSurvey

SpecManage == Init /\ [][NextManage]_vars

\* Writing through a backend that refuses requests and that can be out of reach:
\* callers save and delete surveys and submit responses.
NextFaults ==
    \/ Acknowledge
    \/ BackendFails
    \/ BackendRecovers
    \/ HandleSave
    \/ DeleteSurveyCall
    \/ SaveResponseCall

SpecFaults == InitRemote /\ [][NextFaults]_vars

\* Building surveys against the backend: a user composes the questions of a new
\* survey and saves it.
NextBuilder ==
    \/ Acknowledge
    \/ HandleCreateSurvey
    \/ SetTitle
    \/ AddQuestion
    \/ DeleteQuestion
    \/ UpdateQuestionTitle
    \/ UpdateQuestionType
    \/ AddOption
    \/ UpdateOption
    \/ DeleteOption
    \/ BuilderHandleSave
    \/ HandleCancel

SpecBuilder == InitRemote /\ [][NextBuilder]_vars

\* The surveys a signed-in owner has published from the builder before the forms open.
PublishedSurveys ==
    {[id |-> "s1", public_id |-> "p1", title |-> "Feedback", description |-> "",
      questions |-> <<"q1">>, is_active |-> TRUE, allow_public_access |-> TRUE,
      response_limit |-> l, expires_at |-> e, user_id |-> {"uA"}] :
        l \in {Null} \cup {Val(x) : x \in Limits}, e \in {Null} \cup {Val(x) : x \in ExpiryTimes}}

\* Taking surveys: the backend holds one published survey; application instances open
\* its form from the public link or from the list and submit, the owner switches it.
InitTaker ==
    /\ isSupabaseConfigured = TRUE
    /\ now = 0
    /\ \E row \in PublishedSurveys : surveys = {row}
    /\ responses = {}
    /\ localSurveys = <<>>
    /\ localResponses = <<>>
    /\ result = NoCall
    /\ forms = [f \in FormIds |-> ListView]
    /\ backendDown = FALSE
    /\ authState = InitialAuthState
    /\ supabaseAuth = AuthClient(Anon)
    /\ consumers = NoConsumers
    /\ requests = {}

NextTaker ==
    \/ Tick
    \/ LoadPublicSurvey
    \/ LoadResponseCount
    \/ HandleTakeSurvey
    \/ HandleBackToList
    \/ PublicSurveyTakerHandleSubmit
    \/ SurveyTakerHandleSubmit
    \/ ToggleSurveyStatus

SpecTaker == InitTaker /\ [][NextTaker]_vars

\* C2: for every survey with a response limit L, whatever the interleaving of the
\* forms' count reads and submissions, the number of stored responses referencing the
\* survey never exceeds L.
C2_LimitNeverExceeded ==
    \A r \in surveys :
        Truthy(r.response_limit) => Cardinality(StoredFor(r.id)) <= r.response_limit.v

\* C5: for a survey with responseLimit = 1 that has a stored response, a handleSubmit
\* of a form of that survey is rejected in the form (not submitted, an error shown)
\* and stores no further response.
C5_SecondSubmissionRejected ==
    [][\A f \in FormIds :
          (/\ forms[f].view # "list"
           /\ forms[f].survey.responseLimit = Val(1)
           /\ StoredFor(forms[f].survey.id) # {}
           /\ PublicSurveyTakerHandleSubmit \/ SurveyTakerHandleSubmit
           /\ forms'[f] # forms[f])
          => /\ responses' = responses
             /\ ~forms'[f].isSubmitted
             /\ forms'[f].alert # ""]_vars

\* C11: against the backend, saveSurvey without a user context fails with
\* 'Authentication required to save surveys' whatever the session and the stored rows,
\* and leaves the surveys unchanged; against the local store saveSurvey succeeds with
\* or without a user context and the survey is stored.
C11_UserRequiredToSave ==
    [][result'.op = "saveSurvey" =>
          IF useFallback
          THEN /\ result'.ok
               /\ result'.args.survey \in Range(localSurveys')
          ELSE (result'.args.user = NoUser) =>
                  /\ ~result'.ok
                  /\ result'.error = "Authentication required to save surveys"
                  /\ surveys' = surveys]_vars

\* C11 witness: a signed-in session calls saveSurvey without the user context while
\* the backend holds that user's survey; the call has failed.
C11_Witness ==
    /\ ~useFallback
    /\ result.op = "saveSurvey"
    /\ result.args.user = NoUser
    /\ result.args.auth = {"uA"}
    /\ ~result.ok
    /\ \E r \in surveys : r.id = result.args.id /\ r.user_id = {"uA"}

\* C12: against the backend, getResponsesForSurvey(surveyId, U) with a user context U
\* that does not own the survey, or for a survey that does not exist, fails with
\* 'Survey not found or access denied' and hands no response row to the caller.
C12_NonOwnerReadDenied ==
    (/\ ~useFallback
     /\ result.op = "getResponsesForSurvey"
     /\ result.args.user # NoUser
     /\ ~\E r \in surveys : r.id = result.args.surveyId /\ r.user_id = result.args.user)
    => /\ ~result.ok
       /\ result.error = "Survey not found or access denied"
       /\ "value" \notin DOMAIN result

\* C12 witness: uB has asked for the responses of uA's survey, which uB can see
\* (active and public) and which holds a response; the call has failed.
C12_Witness ==
    /\ ~useFallback
    /\ result.op = "getResponsesForSurvey"
    /\ result.args.user = {"uB"}
    /\ ~result.ok
    /\ \E r \in surveys : /\ r.id = result.args.surveyId
                          /\ r.user_id = {"uA"}
                          /\ SurveySelectPolicy(r, {"uB"})
                          /\ StoredFor(r.id) # {}

\* C13: against the backend, a caller (anonymous, or signed in) obtains through
\* getResponsesForSurvey, with or without a user context, and through getAllResponses
\* only responses of surveys that the caller owns.
C13_OnlyOwnerReadsResponses ==
    (/\ ~useFallback
     /\ result.op \in {"getResponsesForSurvey", "getAllResponses"}
     /\ result.ok)
    => \A x \in result.value :
          \E r \in surveys : r.id = x.surveyId /\ r.user_id = result.args.auth

\* C14: against the backend, a saveSurvey or deleteSurvey call leaves every survey row
\* that the calling session does not own exactly as it was (no field changed, owner
\* kept, row not removed), and a deleteSurvey call reports no error.
C14_OnlyOwnerWrites ==
    [][(~useFallback /\ result'.op \in {"saveSurvey", "deleteSurvey"}) =>
          /\ \A r \in surveys : r.user_id # result'.args.auth => r \in surveys'
          /\ result'.op = "deleteSurvey" => result'.ok]_vars

\* C14 witness: uB has called saveSurvey with the id of a survey owned by uA; the
\* backend has refused the request and the row is still uA's.
C14_Witness ==
    /\ ~useFallback
    /\ result.op = "saveSurvey"
    /\ ~result.ok
    /\ result.error = "Permission denied. Please ensure you are signed in."
    /\ result.args.user = {"uB"}
    /\ result.args.auth = {"uB"}
    /\ \E r \in surveys : r.id = result.args.id /\ r.user_id = {"uA"}

\* The stored responses as the application sees them.
StoredResponses ==
    IF useFallback THEN Range(localResponses)
    ELSE {transformDatabaseResponse(r) : r \in responses}

C16_ResponsesImmutable ==
    [][~useFallback =>
          /\ \A r \in responses :
                /\ \A q \in responses' : q.id = r.id => q = r
                /\ r \notin responses' =>
                      /\ result'.op = "deleteSurvey"
                      /\ result'.args.id = r.survey_id
                      /\ ~HasSurvey(r.survey_id)'
          /\ result'.op = "saveResponse" =>
                /\ responses \subseteq responses'
                /\ result'.ok => \A r \in responses : r.id # result'.args.id]_vars

\* C16 witness: a saveResponse with the id of a stored response of another survey has
\* been refused, and the stored row still references its own survey.
C16_Witness ==
    /\ ~useFallback
    /\ result.op = "saveResponse"
    /\ ~result.ok
    /\ result.args.auth # Anon
    /\ HasSurvey(result.args.surveyId)
    /\ \E r \in responses : r.id = result.args.id /\ r.survey_id # result.args.surveyId

\* C17: after every create, edit, status toggle and delete made from the application
\* no two stored surveys share a publicId, and a stored survey keeps the publicId it
\* had before the step.
C17_PublicIdUniqueImmutable ==
    [][/\ \A a \in StoredSurveys', b \in StoredSurveys' :
             a.publicId = b.publicId => a.id = b.id
       /\ \A a \in StoredSurveys, b \in StoredSurveys' :
             a.id = b.id => a.publicId = b.publicId]_vars

\* C17 witness: the builder has saved an edit of a stored survey (the stored expiry
\* outlived the edit) next to another stored survey, and the survey came back with
\* the publicId it was edited with.
C17_Witness ==
    /\ ~useFallback
    /\ result.op = "saveSurvey"
    /\ result.ok
    /\ result.args.survey.expiresAt = Undefined
    /\ Truthy(result.value.expiresAt)
    /\ result.value.publicId = result.args.survey.publicId
    /\ Cardinality(surveys) = 2

\* C18: every survey stored through the builder has, in each question of a choice
\* type, at least two options and no empty option.
C18_ChoiceOptionsValid ==
    \A S \in StoredSurveys :
        \A i \in 1..Len(S.questions) :
            S.questions[i].type \in ChoiceTypes =>
                /\ Truthy(S.questions[i].options)
                /\ Len(S.questions[i].options.v) >= 2
                /\ \A k \in 1..Len(S.questions[i].options.v) : S.questions[i].options.v[k] # ""

\* The request of a saveResponse call, rebuilt from the call's arguments; the answers
\* do not bear on the backend's verdict.
RequestedInsert(args) ==
    InsertResponse([id |-> args.id, survey_id |-> args.surveyId, answers |-> <<"Yes">>],
                   args.auth)

\* C19: whenever the backend answers the request of saveSurvey, deleteSurvey or
\* saveResponse with an error (it refuses the request or cannot be reached), the call
\* raises an error: a call that returns a value had its request carried out.
C19_WriteFailureRaised ==
    [][~useFallback =>
          /\ (result'.op = "saveSurvey" /\ result'.ok) =>
                /\ UpsertSurvey(result'.args.survey, result'.args.user,
                                result'.args.auth).message = ""
                /\ \E r \in surveys' : transformDatabaseSurvey(r) = result'.value
          /\ (result'.op = "deleteSurvey" /\ result'.ok) => ~backendDown
          /\ (result'.op = "saveResponse" /\ result'.ok) =>
                /\ RequestedInsert(result'.args).message = ""
                /\ \E r \in responses' : r.id = result'.args.id
          /\ (result'.op \in {"saveSurvey", "deleteSurvey", "saveResponse"} /\ backendDown) =>
                /\ ~result'.ok
                /\ UNCHANGED <<surveys, responses>>]_vars

\* C19 witness: the owner's deleteSurvey did not reach the backend; the call has
\* failed and the survey is still stored.
C19_Witness ==
    /\ backendDown
    /\ result.op = "deleteSurvey"
    /\ ~result.ok
    /\ result.error = "Failed to delete survey"
    /\ \E r \in surveys : r.id = result.args.id /\ r.user_id = result.args.auth

\* The errors a backend request can come back with.
BackendErrors ==
    {[code |-> c, message |-> ErrorMessage(c)] : c \in {"23505", "42501", "23503"}}
        \cup {[code |-> "", message |-> FetchFailed]}

\* The failure classes of the two mappings.
SurveyFailureClass(e) ==
    IF e.code = "23505" THEN "conflict" ELSE IF e.code = "42501" THEN "denied" ELSE "other"
ResponseFailureClass(e) ==
    IF e.code = "23503" THEN "constraint" ELSE IF e.code = "42501" THEN "denied" ELSE "other"

\* C20: saveSurvey gives a uniqueness conflict, a permission denial and any other
\* backend failure pairwise different errors, saveResponse does so for a missing
\* referenced survey, a permission denial and any other failure; the error of the
\* other failures is 'Database error: ' followed by the backend's message; and the
\* error a failed saveResponse raises is the one its backend error maps to.
C20_ErrorClassification ==
    [][/\ \A e1 \in BackendErrors, e2 \in BackendErrors :
             /\ SurveyFailureClass(e1) # SurveyFailureClass(e2)
                   => saveSurveyError(e1) # saveSurveyError(e2)
             /\ ResponseFailureClass(e1) # ResponseFailureClass(e2)
                   => saveResponseError(e1) # saveResponseError(e2)
       /\ \A e \in BackendErrors :
             /\ SurveyFailureClass(e) = "other"
                   => saveSurveyError(e) = "Database error: " \o e.message
             /\ ResponseFailureClass(e) = "other"
                   => saveResponseError(e) = "Database error: " \o e.message
       /\ (~useFallback /\ result'.op = "saveResponse" /\ ~result'.ok) =>
             /\ RequestedInsert(result'.args).message # ""
             /\ result'.error = saveResponseError(RequestedInsert(result'.args))
       /\ (~useFallback /\ result'.op = "saveSurvey" /\ ~result'.ok /\ backendDown) =>
             result'.error = "Database error: " \o FetchFailed]_vars

\* C20 witness: a saveResponse with the id of a stored response has failed with the
\* generic error that carries the backend's message.
C20_Witness ==
    /\ ~backendDown
    /\ result.op = "saveResponse"
    /\ ~result.ok
    /\ result.error = "Database error: duplicate key value violates unique constraint"
    /\ \E r \in responses : r.id = result.args.id

\* Opening public links: the backend holds one published survey that its owner
\* switches on and off, the backend can be out of reach, and application instances
\* start on a public link.
NextLink ==
    \/ Tick
    \/ BackendFails
    \/ BackendRecovers
    \/ ToggleSurveyStatus
    \/ LoadPublicSurvey
    \/ LoadResponseCount

SpecLink == InitTaker /\ [][NextLink]_vars

\* C21: an application started on /s/{publicId} enters the public take-survey view
\* exactly when getSurveyByPublicId returns a survey that is active, and then with
\* that survey; when the lookup returns nothing or fails it stays on the list with no
\* survey selected. Every instance in the public view holds a survey that was active.
C21_PublicViewIffActive ==
    /\ \A f \in FormIds, publicId \in PublicIds, auth \in Sessions :
          LET lookup == getSurveyByPublicId(publicId, auth)
              found == lookup.ok /\ Truthy(lookup.value) /\ lookup.value.v.isActive
              after == loadPublicSurvey(lookup, auth)
          IN  forms[f] = ListView =>
                /\ after.view = "public" <=> found
                /\ found => after.survey = lookup.value.v
                /\ ~found => after = ListView
    /\ \A f \in FormIds :
          forms[f].view = "public" =>
              /\ forms[f].survey.isActive
              /\ forms[f].survey.allowPublicAccess = TRUE

\* C21 witness: one instance shows the public form of the survey, and another one,
\* started while the survey is switched off, is on the list.
C21_Witness ==
    /\ forms[1].view = "public"
    /\ forms[1].survey.publicId = "p1"
    /\ forms[2] = ListView
    /\ \A r \in surveys : ~r.is_active
    /\ \A a \in Sessions : ~Truthy(getSurveyByPublicId("p1", a).value)

\* ------------------------------------------------------------ the session
\* AuthContext.tsx:32-43 with loading left set.
mockUserStateLoading == [user |-> {MockUser}, loading |-> TRUE, error |-> ""]

\* AuthContext.tsx:32-43: the state with the mock user of the local mode
mockUserState == [user |-> {MockUser}, loading |-> FALSE, error |-> ""]

\* AuthContext.tsx:57-65 with the user taken from the previous state.
getSessionThenKeepingUser(prev, session) == [prev EXCEPT !.loading = FALSE]

\* AuthContext.tsx:57-65: the callback of getSession() sets the user of the session
\* it was given and clears loading.
getSessionThen(prev, session) == [prev EXCEPT !.user = session, !.loading = FALSE]

\* AuthContext.tsx:77-86 with the user taken from the previous state.
onAuthStateChangeKeepingUser(prev, session) ==
    [prev EXCEPT !.loading = FALSE, !.error = ""]

\* AuthContext.tsx:77-86: the listener sets the user of the notification's session,
\* clears loading and the error.
onAuthStateChange(prev, session) ==
    [prev EXCEPT !.user = session, !.loading = FALSE, !.error = ""]

\* AuthContext.tsx:98, 125: signIn and signUp set loading and clear the error before
\* the request.
signInStarted(prev) == [prev EXCEPT !.loading = TRUE, !.error = ""]

\* AuthContext.tsx:152: signOut sets loading before the request.
signOutStarted(prev) == [prev EXCEPT !.loading = TRUE]

\* AuthContext.tsx:106-117 with the user cleared on a failure.
signInFailedClearingUser(prev, message) ==
    [prev EXCEPT !.user = NoUser, !.loading = FALSE, !.error = message]

\* AuthContext.tsx:106-117, 133-144, 156-159: the request came back with an error;
\* loading is cleared and the message kept (108, 115).
signInFailed(prev, message) == [prev EXCEPT !.loading = FALSE, !.error = message]

\* The operations of the context and the requests of supabase.auth behind them.
AuthOps == {"signIn", "signUp", "signOut", "resetPassword"}

\* The message of the error supabase.auth answers a request with.
AuthErrorMessage(op) ==
    CASE op = "signIn" -> "Invalid login credentials"
      [] op = "signUp" -> "User already registered"
      [] op = "signOut" -> FetchFailed
      [] op = "resetPassword" -> "Email rate limit exceeded"

\* AuthContext.tsx:95, 122, 164: what the operations throw in the local mode
NotConfiguredMessage(op) ==
    IF op = "resetPassword" THEN "Password reset requires Supabase configuration"
    ELSE "Authentication requires Supabase configuration"

\* supabase.auth notifies the listener: the notification joins those not yet handled.
Notify(client, session) == [client EXCEPT !.events = Append(@, session)]

\* AuthContext.tsx:29-91: the effect of AuthProvider runs once. In the local mode it
\* installs the mock user. Otherwise it asks for the session and subscribes to the
\* notifications; the client may notify the listener of the initial session.
Mount ==
    /\ ~supabaseAuth.mounted
    /\ IF useFallback
       THEN /\ authState' = mockUserState
            /\ supabaseAuth' = [supabaseAuth EXCEPT !.mounted = TRUE]
       ELSE /\ authState' = authState
            /\ \E initialSession \in BOOLEAN :
                 LET client == [supabaseAuth EXCEPT !.mounted = TRUE,
                                                    !.getSession = [status |-> "pending"]]
                 IN  supabaseAuth' = IF initialSession THEN Notify(client, client.session)
                                     ELSE client
    /\ UNCHANGED <<backendDown, consumers, requests, isSupabaseConfigured, now, surveys, responses, localSurveys,
                   localResponses, result, forms>>

\* AuthContext.tsx:50: getSession() reads the session of the client.
GetSessionReads ==
    /\ supabaseAuth.getSession.status = "pending"
    /\ supabaseAuth' = [supabaseAuth EXCEPT
                          !.getSession = [status |-> "read", session |-> supabaseAuth.session]]
    /\ UNCHANGED <<authState, backendDown, consumers, requests, isSupabaseConfigured, now, surveys, responses,
                   localSurveys, localResponses, result, forms>>

\* AuthContext.tsx:50-66: the callback of getSession() runs with the session read.
GetSessionResolves ==
    /\ supabaseAuth.getSession.status = "read"
    /\ authState' = getSessionThen(authState, supabaseAuth.getSession.session)
    /\ supabaseAuth' = [supabaseAuth EXCEPT !.getSession = [status |-> "resolved"]]
    /\ UNCHANGED <<backendDown, consumers, requests, isSupabaseConfigured, now, surveys, responses, localSurveys,
                   localResponses, result, forms>>

\* AuthContext.tsx:69-88: the listener handles the oldest notification.
AuthStateChange ==
    /\ supabaseAuth.mounted
    /\ supabaseAuth.events # <<>>
    /\ authState' = onAuthStateChange(authState, Head(supabaseAuth.events))
    /\ supabaseAuth' = [supabaseAuth EXCEPT !.events = Tail(@)]
    /\ UNCHANGED <<backendDown, consumers, requests, isSupabaseConfigured, now, surveys, responses, localSurveys,
                   localResponses, result, forms>>

\* The session of the client ends (expiry, or a sign-out elsewhere): the listener is
\* notified without a session.
SessionExpires ==
    /\ supabaseAuth.mounted
    /\ supabaseAuth.session # Anon
    /\ Len(supabaseAuth.events) < MaxEvents
    /\ supabaseAuth' = Notify([supabaseAuth EXCEPT !.session = Anon], Anon)
    /\ UNCHANGED <<authState, backendDown, consumers, requests, isSupabaseConfigured, now, surveys, responses,
                   localSurveys, localResponses, result, forms>>

\* AuthContext.tsx:93-98, 120-125, 147-152, 162-167: a consumer calls an operation of
\* the context. In the local mode signOut returns and the others throw; otherwise the
\* request goes out, after signIn, signUp and signOut have set loading.
AuthCall ==
    /\ result = NoCall
    /\ supabaseAuth.mounted
    /\ supabaseAuth.call = NoAuthCall
    /\ \E op \in AuthOps, u \in Users :
        LET args == [email |-> u] IN
        IF useFallback
        THEN /\ result' = IF op = "signOut" THEN Ok(op, args, Null)
                          ELSE Err(op, args, NotConfiguredMessage(op))
             /\ UNCHANGED <<authState, supabaseAuth>>
        ELSE /\ authState' = CASE op \in {"signIn", "signUp"} -> signInStarted(authState)
                               [] op = "signOut" -> signOutStarted(authState)
                               [] op = "resetPassword" -> authState
             /\ supabaseAuth' = [supabaseAuth EXCEPT !.call = [op |-> op, email |-> u]]
             /\ result' = result
    /\ UNCHANGED <<backendDown, consumers, requests, isSupabaseConfigured, now, surveys, responses, localSurveys,
                   localResponses, forms>>

\* AuthContext.tsx:106-117, 133-144, 156-159, 171-173: the request comes back with an
\* error; the operation throws it, signIn, signUp and signOut after they have cleared
\* loading and kept the message.
AuthCallFails ==
    /\ supabaseAuth.call # NoAuthCall
    /\ LET call == supabaseAuth.call IN
        /\ authState' = IF call.op = "resetPassword" THEN authState
                        ELSE signInFailed(authState, AuthErrorMessage(call.op))
        /\ supabaseAuth' = [supabaseAuth EXCEPT !.call = NoAuthCall]
        /\ result' = Err(call.op, [email |-> call.email], AuthErrorMessage(call.op))
    /\ UNCHANGED <<backendDown, consumers, requests, isSupabaseConfigured, now, surveys, responses, localSurveys,
                   localResponses, forms>>

\* AuthContext.tsx:112, 139, 154-160, 167-174: the request succeeds and the operation
\* returns without touching the state. A sign-in starts the session of the user and a
\* sign-out ends it, and the client notifies the listener; a sign-up starts a session,
\* or none when the address has to be confirmed first, and then nobody is notified.
AuthCallSucceeds ==
    /\ supabaseAuth.call # NoAuthCall
    /\ Len(supabaseAuth.events) < MaxEvents
    /\ LET call == supabaseAuth.call
           done == [supabaseAuth EXCEPT !.call = NoAuthCall]
       IN
        /\ \E withSession \in BOOLEAN :
             supabaseAuth' =
                CASE call.op = "signIn" ->
                        Notify([done EXCEPT !.session = {call.email}], {call.email})
                  [] call.op = "signUp" ->
                        IF withSession
                        THEN Notify([done EXCEPT !.session = {call.email}], {call.email})
                        ELSE done
                  [] call.op = "signOut" -> Notify([done EXCEPT !.session = Anon], Anon)
                  [] call.op = "resetPassword" -> done
        /\ result' = Ok(call.op, [email |-> call.email], Null)
    /\ UNCHANGED <<authState, backendDown, consumers, requests, isSupabaseConfigured, now, surveys, responses,
                   localSurveys, localResponses, forms>>

\* The session component: the provider mounts in either mode over a persisted session
\* or none, consumers call its operations, the session expires.
InitAuth ==
    /\ isSupabaseConfigured \in BOOLEAN
    /\ now = 0
    /\ surveys = {}
    /\ responses = {}
    /\ localSurveys = <<>>
    /\ localResponses = <<>>
    /\ result = NoCall
    /\ forms = [f \in FormIds |-> ListView]
    /\ backendDown = FALSE
    /\ authState = InitialAuthState
    /\ \E session \in Sessions : supabaseAuth = AuthClient(session)
    /\ consumers = NoConsumers
    /\ requests = {}

NextAuth ==
    \/ Acknowledge
    \/ Mount
    \/ GetSessionReads
    \/ GetSessionResolves
    \/ AuthStateChange
    \/ SessionExpires
    \/ AuthCall
    \/ AuthCallFails
    \/ AuthCallSucceeds

\* The callbacks run and the requests come back: the effect, the callback of
\* getSession(), the listener and the answers of supabase.auth are not held up forever.
SpecAuth ==
    /\ InitAuth
    /\ [][NextAuth]_vars
    /\ WF_vars(Mount)
    /\ WF_vars(GetSessionReads)
    /\ WF_vars(GetSessionResolves)
    /\ WF_vars(AuthStateChange)
    /\ WF_vars(AuthCallFails \/ AuthCallSucceeds)

\* The sessions the callbacks that are due would report: the one getSession() has
\* read and the one of the oldest notification.
ReportedSessions ==
    (IF supabaseAuth.getSession.status = "read" THEN {supabaseAuth.getSession.session}
     ELSE {})
    \cup (IF supabaseAuth.events # <<>> THEN {Head(supabaseAuth.events)} ELSE {})

\* C22: the session component is loading until its effect has run. With the backend,
\* a callback that clears loading sets the user of a session it was reported
\* (authenticated) or none when there is no session (unauthenticated); in the local
\* mode loading is left with the mock user. Loading is eventually left.
C22_LoadingIsLeft ==
    /\ [](~supabaseAuth.mounted => authState = InitialAuthState)
    /\ [][(authState.loading /\ ~authState'.loading) =>
            IF useFallback THEN authState' = mockUserState
            ELSE supabaseAuth'.call = supabaseAuth.call =>
                    authState'.user \in ReportedSessions]_vars
    /\ <>(~authState.loading)

\* C22 witness: with the backend, the callback of getSession() has found the session
\* of uA persisted and no notification was needed to leave loading.
C22_Witness ==
    /\ ~useFallback
    /\ supabaseAuth.getSession.status = "resolved"
    /\ supabaseAuth.events = <<>>
    /\ supabaseAuth.call = NoAuthCall
    /\ supabaseAuth.session = {"uA"}
    /\ authState = [user |-> {"uA"}, loading |-> FALSE, error |-> ""]
    /\ result = NoCall

\* C23: a signIn, signUp or resetPassword that fails leaves the current user and the
\* session as they were and throws an error with a message; after a failed signIn or
\* signUp the state is not loading, and a failed resetPassword leaves the whole state
\* as it was.
C23_FailedCallKeepsUser ==
    [][(/\ result = NoCall
        /\ result'.op \in {"signIn", "signUp", "resetPassword"}
        /\ ~result'.ok) =>
            /\ authState'.user = authState.user
            /\ supabaseAuth'.session = supabaseAuth.session
            /\ supabaseAuth'.events = supabaseAuth.events
            /\ result'.error # ""
            /\ result'.op # "resetPassword" => ~authState'.loading
            /\ (result'.op = "resetPassword" \/ useFallback) => authState' = authState]_vars

\* C23 witness: uA is signed in and a signIn has failed; uA is still the current user,
\* the state is not loading and carries the message of the error thrown.
C23_Witness ==
    /\ ~useFallback
    /\ result.op = "signIn"
    /\ ~result.ok
    /\ result.error = "Invalid login credentials"
    /\ supabaseAuth.session = {"uA"}
    /\ authState = [user |-> {"uA"}, loading |-> FALSE, error |-> "Invalid login credentials"]

\* The listener handles a notification in this step.
NotificationHandled ==
    /\ supabaseAuth.events # <<>>
    /\ supabaseAuth'.events = Tail(supabaseAuth.events)
    /\ supabaseAuth'.call = supabaseAuth.call

\* C24: with the backend, the state follows the notifications: a notification without
\* a session leaves no current user, a notification with a session makes its user the
\* current one; a successful sign-out notifies without a session, a successful sign-in,
\* and a sign-up that starts a session, notifies with the session of the user signed
\* in; and once loading is over nothing but a notification changes the current user.
C24_StateFollowsNotifications ==
    [][~useFallback =>
          /\ NotificationHandled =>
                /\ authState'.user = Head(supabaseAuth.events)
                /\ ~authState'.loading
          /\ (result = NoCall /\ result'.op = "signOut" /\ result'.ok) =>
                supabaseAuth'.events = Append(supabaseAuth.events, Anon)
          /\ (result = NoCall /\ result'.op = "signIn" /\ result'.ok) =>
                supabaseAuth'.events = Append(supabaseAuth.events, {result'.args.email})
          /\ (/\ result = NoCall /\ result'.op = "signUp" /\ result'.ok
              /\ supabaseAuth'.session # supabaseAuth.session) =>
                supabaseAuth'.events = Append(supabaseAuth.events, {result'.args.email})
          /\ (~authState.loading /\ authState'.user # authState.user) =>
                NotificationHandled]_vars

\* ------------------------------------------- components that keep query results
\* A facade call a component is waiting for: the component (and, for AdminDashboard,
\* which of its mounts), the operation with its arguments, and the session the
\* request carries.
Request(by, instance, op, surveyId, user, auth) ==
    [by |-> by, instance |-> instance, op |-> op, surveyId |-> surveyId, user |-> user,
     auth |-> auth]

\* The survey whose ResponseCount the list shows.
ListedSurveyId == "s1"

\* The dependencies of the responses effect of AdminDashboard (AdminDashboard.tsx:66,
\* without the date range) and of the effect of ResponseCount (SurveyList.tsx:262).
DashboardDeps == Val([selectedSurvey |-> consumers.dashboard.selectedSurvey,
                      user |-> authState.user])
CountDeps == Val([surveyId |-> ListedSurveyId, user |-> authState.user])

\* App.tsx:22-35: the effect of App runs once and asks for the surveys, without a user
\* context.
AppMount ==
    /\ ~consumers.app.mounted
    /\ Cardinality(requests) < MaxPending
    /\ consumers' = [consumers EXCEPT !.app.mounted = TRUE]
    /\ requests' = requests \cup
          {Request("app", 0, "getSurveys", "", NoUser, supabaseAuth.session)}
    /\ UNCHANGED <<authState, supabaseAuth, backendDown, isSupabaseConfigured, now, surveys,
                   responses, localSurveys, localResponses, result, forms>>

\* App.tsx:58-68: refreshSurveys, on the user's request (onRefresh).
RefreshSurveys ==
    /\ consumers.app.mounted
    /\ Cardinality(requests) < MaxPending
    /\ Request("app", 0, "getSurveys", "", NoUser, supabaseAuth.session) \notin requests
    /\ requests' = requests \cup
          {Request("app", 0, "getSurveys", "", NoUser, supabaseAuth.session)}
    /\ UNCHANGED <<authState, supabaseAuth, consumers, backendDown, isSupabaseConfigured, now,
                   surveys, responses, localSurveys, localResponses, result, forms>>

\* SurveyList.tsx:249-262: the effect of the ResponseCount of a listed survey runs on
\* mount and when surveyId or user has changed, and asks for the responses.
FetchCount ==
    /\ \E s \in consumers.app.surveys : s.id = ListedSurveyId
    /\ consumers.count.deps # CountDeps
    /\ Cardinality(requests) < MaxPending
    /\ consumers' = [consumers EXCEPT !.count.deps = CountDeps]
    /\ requests' = requests \cup
          {Request("count", 0, "getResponsesForSurvey", ListedSurveyId, authState.user,
                   supabaseAuth.session)}
    /\ UNCHANGED <<authState, supabaseAuth, backendDown, isSupabaseConfigured, now, surveys,
                   responses, localSurveys, localResponses, result, forms>>

\* App.tsx:90-92, AdminDashboard.tsx:17-66: the dashboard mounts; its first effect
\* asks for the surveys of the user, its second one finds no survey selected.
HandleViewAdmin ==
    /\ consumers.app.mounted
    /\ ~consumers.dashboard.open
    /\ consumers.dashboard.instance < MaxMounts
    /\ Cardinality(requests) < MaxPending
    /\ LET instance == consumers.dashboard.instance + 1 IN
        /\ consumers' = [consumers EXCEPT
              !.dashboard = [instance |-> instance, open |-> TRUE, surveys |-> {},
                             selectedSurvey |-> Null,
                             deps |-> Val([selectedSurvey |-> Null, user |-> authState.user]),
                             responses |-> {}]]
        /\ requests' = requests \cup
              {Request("dashboard", instance, "getSurveys", "", authState.user,
                       supabaseAuth.session)}
    /\ UNCHANGED <<authState, supabaseAuth, backendDown, isSupabaseConfigured, now, surveys,
                   responses, localSurveys, localResponses, result, forms>>

\* AdminDashboard.tsx:185, App.tsx:99-108: back to the list; the dashboard unmounts and
\* App refreshes its surveys.
DashboardBack ==
    /\ consumers.dashboard.open
    /\ Cardinality(requests) < MaxPending
    /\ consumers' = [consumers EXCEPT !.dashboard.open = FALSE]
    /\ requests' = requests \cup
          {Request("app", 0, "getSurveys", "", NoUser, supabaseAuth.session)}
    /\ UNCHANGED <<authState, supabaseAuth, backendDown, isSupabaseConfigured, now, surveys,
                   responses, localSurveys, localResponses, result, forms>>

\* AdminDashboard.tsx:290-294: the user selects another of the loaded surveys.
SelectSurvey ==
    /\ consumers.dashboard.open
    /\ \E survey \in consumers.dashboard.surveys :
        /\ consumers.dashboard.selectedSurvey # Val(survey)
        /\ consumers' = [consumers EXCEPT !.dashboard.selectedSurvey = Val(survey)]
    /\ UNCHANGED <<authState, supabaseAuth, requests, backendDown, isSupabaseConfigured, now,
                   surveys, responses, localSurveys, localResponses, result, forms>>

\* AdminDashboard.tsx:44-66: the responses effect runs when the selected survey or the
\* user has changed and, with a survey selected, asks for its responses.
LoadResponses ==
    /\ consumers.dashboard.open
    /\ consumers.dashboard.deps # DashboardDeps
    /\ Cardinality(requests) < MaxPending
    /\ consumers' = [consumers EXCEPT !.dashboard.deps = DashboardDeps]
    /\ requests' =
          IF Truthy(consumers.dashboard.selectedSurvey)
          THEN requests \cup
                 {Request("dashboard", consumers.dashboard.instance, "getResponsesForSurvey",
                          consumers.dashboard.selectedSurvey.v.id, authState.user,
                          supabaseAuth.session)}
          ELSE requests
    /\ UNCHANGED <<authState, supabaseAuth, backendDown, isSupabaseConfigured, now, surveys,
                   responses, localSurveys, localResponses, result, forms>>

\* What the facade answers a request with.
Answer(req) ==
    IF req.op = "getSurveys" THEN getSurveys(req.user, req.auth)
    ELSE getResponsesForSurvey(req.surveyId, req.user, req.auth)

\* What a component makes of the outcome of its call.
Received(state, req, answer) ==
    CASE req.by = "app" ->
            \* App.tsx:26-27, 61-62
            {IF answer.ok THEN [state EXCEPT !.app.surveys = answer.value] ELSE state}
      [] req.by = "count" ->
            \* SurveyList.tsx:252-258
            {[state EXCEPT !.count.count = IF answer.ok THEN Cardinality(answer.value) ELSE 0,
                           !.count.loading = FALSE]}
      [] req.by = "dashboard" ->
            IF ~state.dashboard.open \/ req.instance # state.dashboard.instance \/ ~answer.ok
            THEN {state}
            ELSE IF req.op = "getSurveys"
            THEN \* AdminDashboard.tsx:29-33; allSurveys[0] is any of them, the order of
                 \* a result not being modelled
                 IF answer.value = {} THEN {[state EXCEPT !.dashboard.surveys = {}]}
                 ELSE {[state EXCEPT !.dashboard.surveys = answer.value,
                                     !.dashboard.selectedSurvey = Val(first)] :
                          first \in answer.value}
            ELSE \* AdminDashboard.tsx:48-58
                 {[state EXCEPT !.dashboard.responses = answer.value]}

\* A facade call returns or throws and the component that made it takes the outcome.
RequestReturns ==
    /\ \E req \in requests :
        /\ consumers' \in Received(consumers, req, Answer(req))
        /\ requests' = requests \ {req}
    /\ UNCHANGED <<authState, supabaseAuth, backendDown, isSupabaseConfigured, now, surveys,
                   responses, localSurveys, localResponses, result, forms>>

\* AuthContext.tsx:69-88: somebody signs in or out and the listener handles the
\* notification: the components render with the new user.
SessionChanges ==
    /\ \E session \in Sessions \ {supabaseAuth.session} :
        /\ supabaseAuth' = [supabaseAuth EXCEPT !.session = session]
        /\ authState' = onAuthStateChange(authState, session)
    /\ UNCHANGED <<consumers, requests, backendDown, isSupabaseConfigured, now, surveys,
                   responses, localSurveys, localResponses, result, forms>>

\* The data the components query: uA owns a public survey and a private one, each
\* with a response.
OwnedSurveys ==
    {[id |-> "s1", public_id |-> "p1", title |-> "Feedback", description |-> "",
      questions |-> <<"q1">>, is_active |-> TRUE, allow_public_access |-> TRUE,
      response_limit |-> Null, expires_at |-> Null, user_id |-> {"uA"}],
     [id |-> "s2", public_id |-> "p2", title |-> "Feedback", description |-> "",
      questions |-> <<"q1">>, is_active |-> TRUE, allow_public_access |-> FALSE,
      response_limit |-> Null, expires_at |-> Null, user_id |-> {"uA"}]}

SubmittedResponses ==
    {[id |-> 1, survey_id |-> "s1", answers |-> <<"Yes">>],
     [id |-> 2, survey_id |-> "s2", answers |-> <<"No">>]}

\* The components over the backend: the session is known and nobody is signed in.
InitConsumers ==
    /\ isSupabaseConfigured = TRUE
    /\ now = 0
    /\ surveys = OwnedSurveys
    /\ responses = SubmittedResponses
    /\ localSurveys = <<>>
    /\ localResponses = <<>>
    /\ result = NoCall
    /\ forms = [f \in FormIds |-> ListView]
    /\ backendDown = FALSE
    /\ authState = [user |-> NoUser, loading |-> FALSE, error |-> ""]
    /\ supabaseAuth = [AuthClient(Anon) EXCEPT !.mounted = TRUE,
                                               !.getSession = [status |-> "resolved"]]
    /\ consumers = NoConsumers
    /\ requests = {}

NextConsumers ==
    \/ AppMount
    \/ RefreshSurveys
    \/ FetchCount
    \/ HandleViewAdmin
    \/ DashboardBack
    \/ SelectSurvey
    \/ LoadResponses
    \/ RequestReturns
    \/ SessionChanges

SpecConsumers == InitConsumers /\ [][NextConsumers]_vars

\* Nothing is under way in the components: every call has returned and every effect
\* whose dependencies have changed has run.
Settled ==
    /\ consumers.app.mounted
    /\ requests = {}
    /\ (\E s \in consumers.app.surveys : s.id = ListedSurveyId) =>
          consumers.count.deps = CountDeps
    /\ consumers.dashboard.open => consumers.dashboard.deps = DashboardDeps

\* The value of a query made now, nothing when it fails.
Fetched(answer) == IF answer.ok THEN answer.value ELSE {}

\* C25: after the current user has changed, the components reload what they keep:
\* once nothing is under way any more, the survey list of App, the surveys and the
\* responses of AdminDashboard and the count of ResponseCount are those a query under
\* the current user returns.
C25_ConsumersRequery ==
    Settled =>
        /\ consumers.app.surveys = Fetched(getSurveys(NoUser, supabaseAuth.session))
        /\ (\E s \in consumers.app.surveys : s.id = ListedSurveyId) =>
              consumers.count.count =
                 Cardinality(Fetched(getResponsesForSurvey(ListedSurveyId, authState.user,
                                                           supabaseAuth.session)))
        /\ consumers.dashboard.open =>
              consumers.dashboard.surveys =
                 Fetched(getSurveys(authState.user, supabaseAuth.session))

\* C26: a result that arrives after its component has moved on changes nothing that
\* is shown: once every call of the dashboard has returned, the responses it shows
\* are responses of the survey selected, and a dashboard that has unmounted keeps
\* nothing of a late result.
C26_LateResultDiscarded ==
    /\ (Settled /\ consumers.dashboard.open /\ Truthy(consumers.dashboard.selectedSurvey)) =>
          \A r \in consumers.dashboard.responses :
              r.surveyId = consumers.dashboard.selectedSurvey.v.id
    /\ (Settled /\ (\E s \in consumers.app.surveys : s.id = ListedSurveyId)) =>
          consumers.count.count =
             Cardinality(Fetched(getResponsesForSurvey(ListedSurveyId, authState.user,
                                                       supabaseAuth.session)))

\* C27: in the local mode, once the effect has run, the current user is the mock user
\* and loading is false whatever is called; signOut returns and changes nothing,
\* signIn, signUp and resetPassword throw and change nothing.
C27_MockUserAlwaysPresent ==
    /\ []((useFallback /\ supabaseAuth.mounted) =>
             /\ authState.user = {MockUser}
             /\ ~authState.loading)
    /\ [][(useFallback /\ result = NoCall /\ result'.op \in AuthOps) =>
             /\ authState' = authState
             /\ supabaseAuth' = supabaseAuth
             /\ result'.ok <=> result'.op = "signOut"
             /\ ~result'.ok => result'.error = NotConfiguredMessage(result'.op)]_vars

\* C27 witness: in the local mode a signIn has thrown and the mock user is still the
\* current user.
C27_Witness ==
    /\ useFallback
    /\ supabaseAuth.mounted
    /\ result.op = "signIn"
    /\ ~result.ok
    /\ result.error = "Authentication requires Supabase configuration"
    /\ authState = [user |-> {MockUser}, loading |-> FALSE, error |-> ""]

\* C28: with the backend, after a signIn, signUp or signOut has returned or thrown,
\* loading eventually becomes false.
C28_LoadingEventuallyCleared ==
    (~useFallback /\ result.op \in {"signIn", "signUp", "signOut"}) ~> ~authState.loading

\* Every callback has run: the effect, the callback of getSession(), the listener on
\* every notification; no call is in flight.
AuthQuiescent ==
    /\ supabaseAuth.mounted
    /\ supabaseAuth.getSession.status = "resolved"
    /\ supabaseAuth.events = <<>>
    /\ supabaseAuth.call = NoAuthCall

\* C29: with the backend, however the callback of getSession() and the notifications
\* interleave, once all callbacks have run the current user is the user of the
\* latest session of the client (none when it has none).
C29_UserConverges ==
    (~useFallback /\ AuthQuiescent) => authState.user = supabaseAuth.session

\* ------------------------------------------------ submissions in flight
\* The saveResponse call of a form that has not returned yet.
SubmitRequest(f, response, auth) ==
    [by |-> f, op |-> "saveResponse", response |-> response, auth |-> auth]

\* PublicSurveyTaker.tsx:24, SurveyTaker.tsx:17: isSubmitting is set before the call
\* (83, 56) and cleared when it has returned or thrown (109, 74).
isSubmitting(f) == \E req \in requests : req.by = f /\ req.op = "saveResponse"

\* A submit button that is never disabled.
SubmitDisabledNever(f) == FALSE

\* PublicSurveyTaker.tsx:326, SurveyTaker.tsx:244: disabled={isSubmitting}
SubmitDisabled(f) == isSubmitting(f)

\* PublicSurveyTaker.tsx:80-102, SurveyTaker.tsx:53-68: the user presses the submit
\* button of a rendered form with valid answers; the response is built and
\* saveResponse is called.
SubmitStarts ==
    \E f \in FormIds, id \in ResponseIds, v \in AnswerValues :
        /\ forms[f].view \in {"public", "take"}
        /\ forms[f].view = "public" => ~isExpired(forms[f]) /\ ~isLimitReached(forms[f])
        /\ ~forms[f].isSubmitted
        /\ ~SubmitDisabled(f)
        /\ requests' = requests \cup
              {SubmitRequest(f, Response(id, forms[f].survey.id, <<v>>), forms[f].auth)}
        /\ UNCHANGED <<authState, supabaseAuth, consumers, backendDown, isSupabaseConfigured,
                       now, surveys, responses, localSurveys, localResponses, result, forms>>

\* PublicSurveyTaker.tsx:102-110, SurveyTaker.tsx:68-75: saveResponse returns and the
\* form shows the thanks, or it throws and the form alerts.
SubmitReturns ==
    \E req \in requests :
        /\ req.op = "saveResponse"
        /\ LET r == saveResponse(req.response, req.auth) IN
            /\ responses' = r.responses
            /\ localResponses' = r.localResponses
            /\ forms' = [forms EXCEPT
                            ![req.by].isSubmitted = r.out.ok \/ @,
                            ![req.by].alert = IF r.out.ok THEN @ ELSE r.out.error]
        /\ requests' = requests \ {req}
        /\ UNCHANGED <<authState, supabaseAuth, consumers, backendDown, isSupabaseConfigured,
                       now, surveys, localSurveys, result>>

\* Taking a survey with the calls of the forms in flight: the backend holds one
\* published survey; application instances open its form from the public link or
\* from the list and submit.
NextInFlight ==
    \/ LoadPublicSurvey
    \/ LoadResponseCount
    \/ HandleTakeSurvey
    \/ SubmitStarts
    \/ SubmitReturns

SpecInFlight == InitTaker /\ [][NextInFlight]_vars

====
